---------------------------- MODULE Spec2Model ----------------------------
(***************************************************************************)
(* A model of the x402 payment-retry protocol of the BlockRun TypeScript   *)
(* SDK: the challenge codec (parsePaymentRequired, extractPaymentDetails), *)
(* the resource-URL guard (validateResourceUrl), the EVM and Solana        *)
(* payload builders and the three orchestrators (LLMClient,                *)
(* SolanaLLMClient, ImageClient), each with its session spend accumulator. *)
(*                                                                         *)
(* JavaScript values are modelled as tagged records, so that a missing     *)
(* field, null, a string and an array are told apart the way the code      *)
(* tells them apart (truthiness, Array.isArray, property reads on null).   *)
(* Strings are TLA+ strings; what a parser makes of a string (new URL,     *)
(* BigInt, parseFloat) is a table over the strings the model uses.         *)
(* Money is counted in micro-USD (10^-6 USD): sessionTotalUsd = 1000000    *)
(* stands for the float 1.0.                                               *)
(***************************************************************************)
EXTENDS Integers, Sequences, FiniteSets, TLC

(***************************************************************************)
(* Bounds of the model.                                                    *)
(***************************************************************************)
\* Logical requests issued (possibly concurrently) on one client instance.
MaxReq == 2
\* Callers of getModelPricing on one client instance.
MaxCallers == 3

(***************************************************************************)
(* JavaScript / JSON values.                                               *)
(***************************************************************************)
Undefined == [t |-> "undefined"]
JNull == [t |-> "null"]
JBool(b) == [t |-> "bool", b |-> b]
JNum(n) == [t |-> "num", n |-> n]
JStr(s) == [t |-> "str", s |-> s]
JArr(a) == [t |-> "arr", a |-> a]
JObj(o) == [t |-> "obj", o |-> o]

\* A property read v.k is a TypeError on null and undefined.
Readable(v) == v.t \notin {"null", "undefined"}

\* v.k for a readable v: the field of an object, undefined otherwise.
Get(v, k) == IF v.t = "obj" /\ k \in DOMAIN v.o THEN v.o[k] ELSE Undefined

\* v?.k
OptGet(v, k) == IF Readable(v) THEN Get(v, k) ELSE Undefined

\* JavaScript truthiness.
Truthy(v) ==
    CASE v.t \in {"undefined", "null"} -> FALSE
      [] v.t = "bool" -> v.b
      [] v.t = "num" -> v.n # 0
      [] v.t = "str" -> v.s # ""
      [] OTHER -> TRUE

\* a || b
JsOr(a, b) == IF Truthy(a) THEN a ELSE b

\* Strings of the model that hold a code point above U+00FF.
WideStrings == {"BlockRun API (U+2014) chat"}

RECURSIVE HasWide(_)
\* Does JSON.stringify(v) hold a character btoa cannot encode?
HasWide(v) ==
    CASE v.t = "str" -> v.s \in WideStrings
      [] v.t = "arr" -> \E i \in DOMAIN v.a : HasWide(v.a[i])
      [] v.t = "obj" -> \E k \in DOMAIN v.o : HasWide(v.o[k])
      [] OTHER -> FALSE

(***************************************************************************)
(* Results of operations that may throw.                                   *)
(***************************************************************************)
Ok(v) == [ok |-> TRUE, val |-> v]
Throw(e) == [ok |-> FALSE, err |-> e]

ErrorOf(class, message) == [class |-> class, message |-> message]

ParseFormatError ==
    ErrorOf("Error", "Failed to parse payment required header: invalid format")
StructureError ==
    ErrorOf("Error", "Invalid payment required structure: missing or invalid 'accepts' field")
NoPaymentOptionsError ==
    ErrorOf("Error", "No payment options in payment required response")
NoAmountError ==
    ErrorOf("Error", "No amount found in payment requirements")
TypeErrorNullRead ==
    ErrorOf("TypeError", "Cannot read properties of null")
NoChallengeFound ==
    ErrorOf("PaymentError", "402 response but no payment requirements found")
PaymentRejected ==
    ErrorOf("PaymentError", "Payment was rejected. Check your wallet balance.")
PaymentRejectedSolana ==
    ErrorOf("PaymentError", "Payment was rejected. Check your Solana USDC balance.")
WrongRailError(network) ==
    ErrorOf("PaymentError",
            "Expected Solana payment network, got: "
                \o (IF network.t = "str" THEN network.s ELSE network.t)
                \o ". Use LLMClient for Base payments.")
MissingFeePayer ==
    ErrorOf("PaymentError", "Missing feePayer in 402 extra field")
SigningError == ErrorOf("Error", "signing failed")
InvalidCharacterError == ErrorOf("DOMException", "InvalidCharacterError")
AbortError == ErrorOf("DOMException", "AbortError: This operation was aborted")
NetworkError == ErrorOf("TypeError", "fetch failed")
BodySyntaxError == ErrorOf("SyntaxError", "Unexpected token in JSON")

(***************************************************************************)
(* Text, JSON and base64.  A text is either the JSON text of a value or    *)
(* text that is no JSON; a header string is either the base64 of a text or *)
(* a string that is no base64.                                             *)
(***************************************************************************)
JsonText(v) == [t |-> "json", v |-> v]
JunkText(s) == [t |-> "junk", s |-> s]
Base64Of(text) == [t |-> "b64", of |-> text]
RawString(s) == [t |-> "raw", s |-> s]

RECURSIVE Jsonable(_)
\* What JSON.stringify keeps of a value: an object field that is undefined
\* is left out, an undefined array entry becomes null.
Jsonable(v) ==
    CASE v.t = "obj" ->
             JObj([k \in {f \in DOMAIN v.o : v.o[f] # Undefined} |-> Jsonable(v.o[k])])
      [] v.t = "arr" ->
             JArr([i \in DOMAIN v.a |->
                     IF v.a[i] = Undefined THEN JNull ELSE Jsonable(v.a[i])])
      [] OTHER -> v

\* JSON.stringify
JSON_stringify(v) == JsonText(Jsonable(v))

\* JSON.parse: a SyntaxError on text that is no JSON.
JSON_parse(text) ==
    IF text.t = "json" THEN Ok(text.v) ELSE Throw(BodySyntaxError)

\* btoa: InvalidCharacterError on a character above U+00FF.
btoa(text) ==
    IF text.t = "json" /\ HasWide(text.v)
    THEN Throw(InvalidCharacterError)
    ELSE Ok(Base64Of(text))

\* atob: the encoded text; the empty string decodes to the empty text;
\* InvalidCharacterError on a string that is no base64.
atob(s) ==
    CASE s.t = "b64" -> Ok(s.of)
      [] s.t = "raw" /\ s.s = "" -> Ok(JunkText(""))
      [] OTHER -> Throw(InvalidCharacterError)


(***************************************************************************)
(* Program constants.                                                      *)
(***************************************************************************)
BASE_CHAIN_ID == 8453
USDC_BASE == "0x833589fCD6eDb6E08f4c7C32D4f71b54bdA02913"
SOLANA_NETWORK == "solana:5eykt4UsFv8P8NJdTREpY1vzqKqZKvdp"
USDC_SOLANA == "EPjFWdd5AufqSSqeM2qN1xzybapC8G4wEGGkZwyTDt1v"
BASE_NETWORK == "eip155:8453"
DEFAULT_MAX_TIMEOUT == 300
CLOCK_SKEW_SECONDS == 600
MICRO_PER_USD == 1000000

DEFAULT_API_URL == "https://blockrun.ai/api"
SOLANA_API_URL == "https://sol.blockrun.ai/api"

\* The EIP-712 domain of USDC on Base.
USDC_DOMAIN ==
    [name |-> "USD Coin", version |-> "2", chainId |-> BASE_CHAIN_ID,
     verifyingContract |-> USDC_BASE]

(***************************************************************************)
(* Challenge codec.                                                        *)
(***************************************************************************)
\* A faulty variant: only the accepts of the parsed value is returned.
ValidateParsed_AcceptsOnly(parsed) ==
    IF ~Readable(parsed) THEN Throw(ParseFormatError)
    ELSE IF ~Truthy(Get(parsed, "accepts")) \/ Get(parsed, "accepts").t # "arr"
         THEN Throw(StructureError)
         ELSE Ok(JObj([accepts |-> Get(parsed, "accepts")]))

\* A faulty variant: an empty accepts is a structure error too.
ValidateParsed_NonEmpty(parsed) ==
    IF ~Readable(parsed) THEN Throw(ParseFormatError)
    ELSE IF ~Truthy(Get(parsed, "accepts")) \/ Get(parsed, "accepts").t # "arr"
              \/ Len(Get(parsed, "accepts").a) = 0
         THEN Throw(StructureError)
         ELSE Ok(parsed)

\* parsePaymentRequired's validation of the parsed value: the read of
\* parsed.accepts throws on null; a falsy accepts or one that is no array is
\* a structure error.  Both are thrown inside the try block, whose catch
\* keeps the structure error and turns any other Error into the format error.
ValidateParsed(parsed) ==
    IF ~Readable(parsed) THEN Throw(ParseFormatError)
    ELSE IF ~Truthy(Get(parsed, "accepts")) \/ Get(parsed, "accepts").t # "arr"
         THEN Throw(StructureError)
         ELSE Ok(parsed)

\* parsePaymentRequired(headerValue): atob, JSON.parse, validation.
parsePaymentRequired(headerValue) ==
    LET decoded == atob(headerValue) IN
    IF ~decoded.ok THEN Throw(ParseFormatError)
    ELSE LET parsed == JSON_parse(decoded.val) IN
         IF ~parsed.ok THEN Throw(ParseFormatError)
         ELSE ValidateParsed(parsed.val)

\* A faulty variant: the last entry of the preferred network is taken.
FindNetwork_Last(accepts, preferredNetwork) ==
    LET hits == {i \in DOMAIN accepts :
                    Get(accepts[i], "network") = JStr(preferredNetwork)}
    IN IF hits = {} THEN 0 ELSE CHOOSE i \in hits : \A j \in hits : i >= j

\* accepts.find(opt => opt.network === preferredNetwork): the index of the
\* first match, 0 when there is none.  (The read opt.network throws on a
\* null entry met before the match; see FindThrows.)
FindNetwork(accepts, preferredNetwork) ==
    LET hits == {i \in DOMAIN accepts :
                    Get(accepts[i], "network") = JStr(preferredNetwork)}
    IN IF hits = {} THEN 0 ELSE CHOOSE i \in hits : \A j \in hits : i <= j

\* The find callback reads opt.network of each entry up to the first match.
FindThrows(accepts, preferredNetwork) ==
    LET hit == FindNetwork(accepts, preferredNetwork)
        last == IF hit = 0 THEN Len(accepts) ELSE hit
    IN \E i \in 1..last : ~Readable(accepts[i])

\* The entry extractPaymentDetails selects: the first entry of the
\* preferred network when one is given and found, accepts[0] otherwise.
SelectOption(accepts, preferredNetwork) ==
    LET hit == IF Truthy(preferredNetwork)
               THEN FindNetwork(accepts, preferredNetwork.s) ELSE 0
    IN IF hit # 0 /\ Truthy(accepts[hit]) THEN accepts[hit] ELSE accepts[1]

\* A faulty variant: the legacy field name wins over amount.
NormalizedAmount_Legacy(option) ==
    JsOr(Get(option, "maxAmountRequired"), Get(option, "amount"))

\* option.amount || option.maxAmountRequired
NormalizedAmount(option) ==
    JsOr(Get(option, "amount"), Get(option, "maxAmountRequired"))

\* extractPaymentDetails(paymentRequired, preferredNetwork).
extractPaymentDetails(paymentRequired, preferredNetwork) ==
    LET acc == JsOr(Get(paymentRequired, "accepts"), JArr(<<>>))
        accepts == IF acc.t = "arr" THEN acc.a ELSE <<>>
    IN
    \* accepts that is no array (never so after parsePaymentRequired): a
    \* string has a length and characters without an amount; anything else
    \* has no length and no entry 0, whose read throws.
    IF acc.t = "str" /\ ~Truthy(preferredNetwork) THEN Throw(NoAmountError)
    ELSE IF acc.t # "arr" THEN Throw(TypeErrorNullRead)
    ELSE IF Len(accepts) = 0 THEN Throw(NoPaymentOptionsError)
    ELSE IF Truthy(preferredNetwork) /\ FindThrows(accepts, preferredNetwork.s)
    THEN Throw(TypeErrorNullRead)
    ELSE
      LET option == SelectOption(accepts, preferredNetwork) IN
      IF ~Readable(option) THEN Throw(TypeErrorNullRead)
      ELSE
        LET amount == NormalizedAmount(option) IN
        IF ~Truthy(amount) THEN Throw(NoAmountError)
        ELSE Ok([amount |-> amount,
                 recipient |-> Get(option, "payTo"),
                 network |-> Get(option, "network"),
                 asset |-> Get(option, "asset"),
                 scheme |-> Get(option, "scheme"),
                 maxTimeoutSeconds |->
                     JsOr(Get(option, "maxTimeoutSeconds"), JNum(DEFAULT_MAX_TIMEOUT)),
                 extra |-> Get(option, "extra"),
                 resource |-> Get(paymentRequired, "resource")])

(***************************************************************************)
(* Strings as parsers read them.                                           *)
(***************************************************************************)
\* new URL(s): the strings of the model that parse, with the protocol,
\* hostname and port the parser reports (a port that is the protocol's
\* default is reported as "").  Every other string throws.
UrlTable ==
    ("https://blockrun.ai/api" :>
        [protocol |-> "https:", hostname |-> "blockrun.ai", port |-> ""])
 @@ ("https://blockrun.ai/api/v1/chat/completions" :>
        [protocol |-> "https:", hostname |-> "blockrun.ai", port |-> ""])
 @@ ("https://blockrun.ai/api/v1/images/generations" :>
        [protocol |-> "https:", hostname |-> "blockrun.ai", port |-> ""])
 @@ ("https://blockrun.ai/api/v2/models" :>
        [protocol |-> "https:", hostname |-> "blockrun.ai", port |-> ""])
 @@ ("https://blockrun.ai:8443/api/v1/chat/completions" :>
        [protocol |-> "https:", hostname |-> "blockrun.ai", port |-> "8443"])
 @@ ("http://blockrun.ai/api/v1/chat" :>
        [protocol |-> "http:", hostname |-> "blockrun.ai", port |-> ""])
 @@ ("https://sol.blockrun.ai/api" :>
        [protocol |-> "https:", hostname |-> "sol.blockrun.ai", port |-> ""])
 @@ ("https://sol.blockrun.ai/api/v1/chat/completions" :>
        [protocol |-> "https:", hostname |-> "sol.blockrun.ai", port |-> ""])
 @@ ("https://sol.blockrun.ai:8443/api/v1/chat/completions" :>
        [protocol |-> "https:", hostname |-> "sol.blockrun.ai", port |-> "8443"])
 @@ ("https://api.blockrun.ai/v1/chat/completions" :>
        [protocol |-> "https:", hostname |-> "api.blockrun.ai", port |-> ""])
 @@ ("https://evil.blockrun.ai/v1/chat" :>
        [protocol |-> "https:", hostname |-> "evil.blockrun.ai", port |-> ""])
 @@ ("https://malicious.com/steal" :>
        [protocol |-> "https:", hostname |-> "malicious.com", port |-> ""])
 @@ ("http://localhost:3000" :>
        [protocol |-> "http:", hostname |-> "localhost", port |-> "3000"])
 @@ ("http://localhost:3000/v1/chat/completions" :>
        [protocol |-> "http:", hostname |-> "localhost", port |-> "3000"])
 @@ ("http://localhost:4000/v1/chat/completions" :>
        [protocol |-> "http:", hostname |-> "localhost", port |-> "4000"])
 @@ ("https://sol.blockrun.ai/api/v1/images/generations" :>
        [protocol |-> "https:", hostname |-> "sol.blockrun.ai", port |-> ""])
 @@ ("http://localhost:3000/v1/images/generations" :>
        [protocol |-> "http:", hostname |-> "localhost", port |-> "3000"])
 @@ ("http://127.0.0.1:8080" :>
        [protocol |-> "http:", hostname |-> "127.0.0.1", port |-> "8080"])
 @@ ("http://127.0.0.1:8080/v1/chat/completions" :>
        [protocol |-> "http:", hostname |-> "127.0.0.1", port |-> "8080"])
 @@ ("http://127.0.0.1:8080/v1/images/generations" :>
        [protocol |-> "http:", hostname |-> "127.0.0.1", port |-> "8080"])
 @@ ("https://blockrun.ai/api/" :>
        [protocol |-> "https:", hostname |-> "blockrun.ai", port |-> ""])
 @@ ("http://insecure.com" :>
        [protocol |-> "http:", hostname |-> "insecure.com", port |-> ""])
 @@ ("http://192.168.1.1" :>
        [protocol |-> "http:", hostname |-> "192.168.1.1", port |-> ""])
 @@ ("ftp://example.com" :>
        [protocol |-> "ftp:", hostname |-> "example.com", port |-> ""])

UrlParses(s) == s \in DOMAIN UrlTable
UrlOf(s) == UrlTable[s]

\* The origin of a URL: protocol, hostname and port.
Origin(s) == <<UrlOf(s).protocol, UrlOf(s).hostname, UrlOf(s).port>>

\* String(v) for a value passed where a string is expected; what is no
\* string becomes text that no parser of the model accepts.
ToStr(v) == IF v.t = "str" THEN v.s ELSE "[" \o v.t \o "]"

\* BigInt(s): decimal and 0x-prefixed literals convert, other text throws.
BigIntTable ==
    ("1000000" :> 1000000) @@ ("2500" :> 2500) @@ ("0x10" :> 16)
BigIntParses(s) == s \in DOMAIN BigIntTable

\* parseFloat(s) in micro-units: the leading decimal literal; "0x10" reads
\* as 0.  (No other text reaches parseFloat: BigInt has thrown before.)
ParseFloatTable ==
    ("1000000" :> 1000000) @@ ("2500" :> 2500) @@ ("0x10" :> 0)

(***************************************************************************)
(* Resource-URL guard.                                                     *)
(***************************************************************************)
\* A faulty variant: the URL the server declared is passed through.
validateResourceUrl_Unchecked(url, baseUrl) == url

\* A faulty variant: plain http is accepted for every host.
validateApiUrl_AnyHttp(url) ==
    IF ~UrlParses(url) THEN Throw(ErrorOf("Error", "Invalid API URL format"))
    ELSE IF UrlOf(url).protocol \notin {"http:", "https:"}
    THEN Throw(ErrorOf("Error", "Invalid protocol: " \o UrlOf(url).protocol
                                  \o ". Use http:// or https://"))
    ELSE Ok(Undefined)

\* validateApiUrl(url): returns nothing or throws.
validateApiUrl(url) ==
    IF ~UrlParses(url) THEN Throw(ErrorOf("Error", "Invalid API URL format"))
    ELSE IF UrlOf(url).protocol \notin {"http:", "https:"}
    THEN Throw(ErrorOf("Error", "Invalid protocol: " \o UrlOf(url).protocol
                                  \o ". Use http:// or https://"))
    ELSE IF UrlOf(url).protocol # "https:"
            /\ UrlOf(url).hostname \notin {"localhost", "127.0.0.1"}
    THEN Throw(ErrorOf("Error", "API URL must use HTTPS for non-localhost endpoints. "
                                  \o "Use https:// instead of " \o UrlOf(url).protocol \o "//"))
    ELSE Ok(Undefined)

\* A faulty variant: the protocol is not compared.
validateResourceUrl_HostOnly(url, baseUrl) ==
    IF ~UrlParses(url) \/ ~UrlParses(baseUrl)
    THEN baseUrl \o "/v1/chat/completions"
    ELSE IF UrlOf(url).hostname # UrlOf(baseUrl).hostname
    THEN baseUrl \o "/v1/chat/completions"
    ELSE url

\* validateResourceUrl(url, baseUrl)
validateResourceUrl(url, baseUrl) ==
    IF ~UrlParses(url) \/ ~UrlParses(baseUrl)
    THEN baseUrl \o "/v1/chat/completions"
    ELSE IF UrlOf(url).hostname # UrlOf(baseUrl).hostname
    THEN baseUrl \o "/v1/chat/completions"
    ELSE IF UrlOf(url).protocol # UrlOf(baseUrl).protocol
    THEN baseUrl \o "/v1/chat/completions"
    ELSE url

(***************************************************************************)
(* Payload builders.                                                       *)
(***************************************************************************)
TEST_PRIVATE_KEY == "0xac0974bec39a17e36ba4a6b4d238ff944bacb478cbed5efcae784d7bf4f2ff80"
TEST_ADDRESS == "0xf39Fd6e51aad88F6F4ce6aB8827279cffFb92266"
TEST_RECIPIENT == "0x70997970C51812dc3A010C7d01b50e0d17dc79C8"
SOLANA_SECRET_KEY == "bs58-secret-key"
SOLANA_ADDRESS == "So1anaWa11etPubkey"
SOLANA_RECIPIENT == "So1anaRecipientPubkey"
FEE_PAYER == "CdpFaci1itatorFeePayer"

BigIntError == ErrorOf("SyntaxError", "Cannot convert to a BigInt")
RpcError == ErrorOf("Error", "failed to get info about account")
KeyError == ErrorOf("Error", "Invalid Solana secret key")

\* BigInt(v) succeeds on an integer number and on a string BigInt reads.
BigIntOk(v) ==
    \/ v.t = "num"
    \/ v.t = "str" /\ BigIntParses(v.s)
BigIntOf(v) == IF v.t = "num" THEN v.n ELSE BigIntTable[v.s]

\* now + (maxTimeoutSeconds || 300): a sum of numbers, and the
\* concatenation JavaScript makes of a number and a string.
PlusSeconds(now, v) ==
    IF v.t = "num" THEN JNum(now + v.n) ELSE JStr(ToString(now) \o ToStr(v))

\* n.toString()
NumToString(v) == IF v.t = "num" THEN JStr(ToString(v.n)) ELSE v

\* A faulty variant: the key itself is put where the signature goes.
signTypedData_LeaksKey(privateKey, domain, message) ==
    [t |-> "sig", signer |-> privateKey, domain |-> domain, message |-> message]

\* signTypedData({privateKey, domain, types, primaryType, message}): the
\* signature recovers to the address of the key and binds the domain and
\* the message it was made over.
signTypedData(privateKey, domain, message) ==
    [t |-> "sig",
     signer |-> IF privateKey = TEST_PRIVATE_KEY THEN TEST_ADDRESS
                ELSE "0x0000000000000000000000000000000000000000",
     domain |-> domain, message |-> message]

\* A faulty variant: the domain follows what the challenge declares.
SigningDomain_FromChallenge(network, options) ==
    [name |-> ToStr(JsOr(OptGet(options.extra, "name"), JStr(USDC_DOMAIN.name))),
     version |-> ToStr(JsOr(OptGet(options.extra, "version"), JStr(USDC_DOMAIN.version))),
     chainId |-> IF network = JStr(BASE_NETWORK) THEN BASE_CHAIN_ID ELSE 1,
     verifyingContract |-> USDC_BASE]

\* const domain = USDC_DOMAIN: the domain createPaymentPayload signs over,
\* whatever network and options it was called with.
SigningDomain(network, options) == USDC_DOMAIN

\* createPaymentPayload(privateKey, fromAddress, recipient, amount, network,
\* options).  now is Math.floor(Date.now() / 1000), nonce the value of
\* createNonce(), signOk whether signTypedData accepts the message.
createPaymentPayload(privateKey, fromAddress, recipient, amount, network, options, now, nonce, signOk) ==
    LET timeout == JsOr(options.maxTimeoutSeconds, JNum(DEFAULT_MAX_TIMEOUT))
        validAfter == JNum(now - CLOCK_SKEW_SECONDS)
        validBefore == PlusSeconds(now, timeout)
        domain == SigningDomain(network, options)
        message == [from |-> fromAddress, to |-> recipient,
                    value |-> IF BigIntOk(amount) THEN BigIntOf(amount) ELSE 0,
                    validAfter |-> validAfter, validBefore |-> validBefore,
                    nonce |-> nonce]
        signature == signTypedData(privateKey, domain, message)
        paymentData == JObj([
            x402Version |-> JNum(2),
            resource |-> JObj([
                url |-> JsOr(options.resourceUrl,
                             JStr("https://blockrun.ai/api/v1/chat/completions")),
                description |-> JsOr(options.resourceDescription,
                                     JStr("BlockRun AI API call")),
                mimeType |-> JStr("application/json")]),
            accepted |-> JObj([
                scheme |-> JStr("exact"),
                network |-> network,
                amount |-> amount,
                asset |-> JStr(USDC_BASE),
                payTo |-> recipient,
                maxTimeoutSeconds |-> timeout,
                extra |-> JObj([name |-> JStr("USD Coin"), version |-> JStr("2")])]),
            payload |-> JObj([
                signature |-> signature,
                authorization |-> JObj([
                    from |-> JStr(fromAddress),
                    to |-> recipient,
                    value |-> amount,
                    validAfter |-> NumToString(validAfter),
                    validBefore |-> NumToString(validBefore),
                    nonce |-> JStr(nonce)])]),
            extensions |-> JsOr(options.extensions, JObj(<<>>))])
    IN
    IF ~BigIntOk(amount) THEN Throw(BigIntError)
    ELSE IF ~signOk THEN Throw(SigningError)
    ELSE btoa(JSON_stringify(paymentData))

\* createSolanaPaymentPayload(secretKey, fromAddress, recipient, amount,
\* feePayer, options).  rpcOk: getMint and getLatestBlockhash answer;
\* blockhash: the hash the RPC endpoint reports.
createSolanaPaymentPayload(secretKey, fromAddress, recipient, amount, feePayer, options, rpcOk, blockhash) ==
    LET transaction ==
            [t |-> "tx",
             payerKey |-> feePayer,
             recentBlockhash |-> blockhash,
             instructions |-> <<"setComputeUnitLimit", "setComputeUnitPrice",
                                "transferChecked">>,
             mint |-> USDC_SOLANA,
             owner |-> fromAddress,
             destinationOwner |-> recipient,
             amount |-> IF BigIntOk(amount) THEN BigIntOf(amount) ELSE 0,
             \* transaction.sign([Keypair.fromSecretKey(secretKey)])
             signedBy |-> {IF secretKey = SOLANA_SECRET_KEY THEN SOLANA_ADDRESS
                           ELSE "unknown"}]
        paymentData == JObj([
            x402Version |-> JNum(2),
            resource |-> JObj([
                url |-> JsOr(options.resourceUrl,
                             JStr("https://blockrun.ai/api/v1/chat/completions")),
                description |-> JsOr(options.resourceDescription,
                                     JStr("BlockRun AI API call")),
                mimeType |-> JStr("application/json")]),
            accepted |-> JObj([
                scheme |-> JStr("exact"),
                network |-> JStr(SOLANA_NETWORK),
                amount |-> amount,
                asset |-> JStr(USDC_SOLANA),
                payTo |-> recipient,
                maxTimeoutSeconds |->
                    JsOr(options.maxTimeoutSeconds, JNum(DEFAULT_MAX_TIMEOUT)),
                extra |-> JsOr(options.extra, JObj([feePayer |-> feePayer]))]),
            payload |-> JObj([transaction |-> transaction]),
            extensions |-> JsOr(options.extensions, JObj(<<>>))])
    IN
    \* new PublicKey(feePayer), new PublicKey(recipient) come before the
    \* first RPC call (getMint); BigInt(amount) after the last.
    IF \E key \in {feePayer, recipient} :
          key.t # "str" \/ key.s \notin {SOLANA_ADDRESS, SOLANA_RECIPIENT, FEE_PAYER}
    THEN Throw(ErrorOf("Error", "Invalid public key input"))
    ELSE IF ~rpcOk THEN Throw(RpcError)
    ELSE IF ~BigIntOk(amount) THEN Throw(BigIntError)
    ELSE btoa(JSON_stringify(paymentData))

\* The payment data a PAYMENT-SIGNATURE header value decodes to.
DecodePayload(headerValue) == headerValue.of.v

(***************************************************************************)
(* Error sanitizer.                                                        *)
(***************************************************************************)
\* A faulty variant: the fields of the body are kept next to message.
sanitizeErrorResponse_Spread(errorBody) ==
    IF errorBody.t # "obj"
    THEN JObj([message |-> JStr("API request failed")])
    ELSE JObj(("message" :> (IF Get(errorBody, "error").t = "str"
                              THEN Get(errorBody, "error")
                              ELSE JStr("API request failed")))
              @@ errorBody.o)

\* sanitizeErrorResponse(errorBody): typeof "object" holds of objects and
\* arrays, not of null.
sanitizeErrorResponse(errorBody) ==
    IF errorBody.t \notin {"obj", "arr"}
    THEN JObj([message |-> JStr("API request failed")])
    ELSE JObj([message |-> IF Get(errorBody, "error").t = "str"
                           THEN Get(errorBody, "error")
                           ELSE JStr("API request failed"),
               code |-> IF Get(errorBody, "code").t = "str"
                        THEN Get(errorBody, "code")
                        ELSE Undefined])

\* new APIError(message, status, response)
APIError(message, status, response) ==
    [class |-> "APIError", message |-> message, status |-> status,
     response |-> response]

(***************************************************************************)
(* The three orchestrators.                                                *)
(***************************************************************************)
Kinds == {"llm", "solana", "image"}

\* this.apiUrl after the constructor (the default of each client).
ApiUrl(k) == IF k = "solana" THEN SOLANA_API_URL ELSE DEFAULT_API_URL

\* The endpoint the public methods pass to requestWithPayment.
Endpoint(k) ==
    IF k = "image" THEN "/v1/images/generations" ELSE "/v1/chat/completions"

\* The body object the caller passes.
RequestBody(k) ==
    IF k = "image"
    THEN JObj([model |-> JStr("google/nano-banana"), prompt |-> JStr("A cat")])
    ELSE JObj([model |-> JStr("openai/gpt-4o"), max_tokens |-> JNum(1024)])

\* The wallet address payments are made from.
WalletAddress(k) == IF k = "solana" THEN SOLANA_ADDRESS ELSE TEST_ADDRESS

\* An HTTP response: status, the payment-required header (null when
\* absent) and the text of the body.
Response(status, header, body) ==
    [status |-> status, header |-> header, body |-> body]
NoResponse == Response(0, JNull, JunkText(""))
NoError == [class |-> "none"]

\* response.ok
IsOk(status) == status >= 200 /\ status <= 299

\* One logical request (one call of requestWithPayment): where it stands,
\* the first response, what was extracted from the challenge, the HTTP
\* requests it has sent, the payloads it has built, the error it threw.
NewRequest ==
    [pc |-> "idle", body |-> Undefined, resp |-> NoResponse, details |-> Undefined,
     extensions |-> Undefined, sent |-> <<>>, built |-> <<>>,
     resp2 |-> NoResponse, err |-> NoError]

\* fetchWithTimeout(url, {method: "POST", headers, body}): the request put
\* on the wire; sig is the PAYMENT-SIGNATURE header, undefined when absent.
HttpRequest(k, body, sig) ==
    [url |-> ApiUrl(k) \o Endpoint(k), method |-> "POST",
     body |-> JSON_stringify(body), sig |-> sig]

\* A throw that reaches the caller of requestWithPayment.
Fail(q, e) == [q EXCEPT !.pc = "failed", !.err = e]

\* !paymentHeader
HeaderFalsy(h) == h.t = "null" \/ (h.t = "raw" /\ h.s = "")

\* A faulty variant: every JSON body of a header-less 402 is taken for the
\* challenge.
BodyHasMarker_Any(k, respBody) == TRUE

\* The marker fields whose truthiness makes the body of a header-less 402
\* the challenge.
BodyHasMarker(k, respBody) ==
    IF k = "solana"
    THEN Truthy(Get(respBody, "accepts")) \/ Truthy(Get(respBody, "x402Version"))
    ELSE Truthy(Get(respBody, "x402")) \/ Truthy(Get(respBody, "accepts"))

\* The try block that reads the body of a header-less 402: the header value
\* made from the body, null when the body does not parse, the read of a
\* marker throws (a null body), no marker is truthy, or btoa throws.
HeaderFromBody(k, bodyText) ==
    LET parsed == JSON_parse(bodyText) IN
    IF ~parsed.ok THEN JNull
    ELSE IF ~Readable(parsed.val) THEN JNull
    ELSE IF ~BodyHasMarker(k, parsed.val) THEN JNull
    ELSE LET enc == btoa(JSON_stringify(parsed.val)) IN
         IF enc.ok THEN enc.val ELSE JNull

\* network.startsWith("solana:")
SolanaPrefixed == {SOLANA_NETWORK, "solana:EtWTRABZaYq6iMfeYKouRu166VU2xqa1"}

\* A faulty variant: the network of the requirement is not looked at.
SolanaChecks_AnyRail(details) ==
    IF ~Truthy(OptGet(details.extra, "feePayer"))
    THEN Throw(MissingFeePayer)
    ELSE Ok(details)

\* A faulty variant: a requirement without fee payer goes on to the builder.
SolanaChecks_AnyFeePayer(details) ==
    IF Readable(details.network) /\ details.network.t # "str"
    THEN Throw(ErrorOf("TypeError", "details.network.startsWith is not a function"))
    ELSE IF ~Readable(details.network) \/ details.network.s \notin SolanaPrefixed
    THEN Throw(WrongRailError(details.network))
    ELSE Ok(details)

\* The checks SolanaLLMClient makes on the extracted details before it
\* builds: the network prefix, then extra.feePayer.
SolanaChecks(details) ==
    IF Readable(details.network) /\ details.network.t # "str"
    THEN Throw(ErrorOf("TypeError", "details.network.startsWith is not a function"))
    ELSE IF ~Readable(details.network) \/ details.network.s \notin SolanaPrefixed
    THEN Throw(WrongRailError(details.network))
    ELSE IF ~Truthy(OptGet(details.extra, "feePayer"))
    THEN Throw(MissingFeePayer)
    ELSE Ok(details)

\* handlePaymentAndRetry from a truthy paymentHeader to its first await:
\* parse, extract, (Solana) check; the request then waits for the payload.
ContinueWithHeader(k, q, paymentHeader) ==
    LET parsed == parsePaymentRequired(paymentHeader) IN
    IF ~parsed.ok THEN Fail(q, parsed.err)
    ELSE
      LET details == extractPaymentDetails(parsed.val,
                        IF k = "solana" THEN JStr(SOLANA_NETWORK) ELSE Undefined)
      IN
      IF ~details.ok THEN Fail(q, details.err)
      ELSE
        LET checked == IF k = "solana" THEN SolanaChecks(details.val) ELSE details
        IN
        IF ~checked.ok THEN Fail(q, checked.err)
        ELSE [q EXCEPT !.pc = "building", !.details = details.val,
                       !.extensions = Get(parsed.val, "extensions")]

\* A faulty variant: every answer without a payment header is searched for
\* a challenge, whatever its status.
OnFirstResponse_AlwaysChallenged(k, q, resp) ==
    IF HeaderFalsy(resp.header)
    THEN [q EXCEPT !.pc = "body402", !.resp = resp]
    ELSE ContinueWithHeader(k, [q EXCEPT !.resp = resp], resp.header)

\* requestWithPayment after the first fetch has answered.
OnFirstResponse(k, q, resp) ==
    IF resp.status = 402
    THEN IF HeaderFalsy(resp.header)
         THEN [q EXCEPT !.pc = "body402", !.resp = resp]
         ELSE ContinueWithHeader(k, [q EXCEPT !.resp = resp], resp.header)
    ELSE IF ~IsOk(resp.status)
    THEN [q EXCEPT !.pc = "errbody1", !.resp = resp]
    ELSE [q EXCEPT !.pc = "body1", !.resp = resp]

\* A faulty variant: a 402 in which no challenge is found is answered with a
\* second request all the same.
OnChallengeBody_SendsAnyway(k, q) ==
    LET paymentHeader == HeaderFromBody(k, q.resp.body) IN
    IF HeaderFalsy(paymentHeader)
    THEN [q EXCEPT !.pc = "fetch2", !.sent = Append(@, HttpRequest(k, q.body, JNull))]
    ELSE ContinueWithHeader(k, q, paymentHeader)

\* handlePaymentAndRetry after the body of a header-less 402 was read.
OnChallengeBody(k, q) ==
    LET paymentHeader == HeaderFromBody(k, q.resp.body) IN
    IF HeaderFalsy(paymentHeader)
    THEN Fail(q, NoChallengeFound)
    ELSE ContinueWithHeader(k, q, paymentHeader)

\* A faulty variant: a fetch that rejects is sent again.
OnFetchError_Resends(k, q, e) ==
    [q EXCEPT !.sent = Append(@, @[Len(@)])]

\* A fetch that rejects (network failure, or the abort of the timeout): the
\* rejection leaves fetchWithTimeout and the orchestrator uncaught.
OnFetchError(k, q, e) == Fail(q, e)

\* A faulty variant: the default validity is passed whatever the requirement
\* says.
BuildOptions_DefaultTimeout(k, q) ==
    LET resource == q.details.resource
        fallback == JStr(ApiUrl(k) \o Endpoint(k))
    IN [resourceUrl |->
            JStr(validateResourceUrl(
                    ToStr(JsOr(OptGet(resource, "url"), fallback)), ApiUrl(k))),
        resourceDescription |-> JsOr(OptGet(resource, "description"), JStr("BlockRun AI API call")),
        maxTimeoutSeconds |-> JNum(DEFAULT_MAX_TIMEOUT),
        extra |-> q.details.extra,
        extensions |-> q.extensions]

\* The options each orchestrator passes to its payload builder.
BuildOptions(k, q) ==
    LET resource == q.details.resource
        fallback == JStr(ApiUrl(k) \o Endpoint(k))
    IN [resourceUrl |->
            JStr(validateResourceUrl(
                    ToStr(JsOr(OptGet(resource, "url"), fallback)), ApiUrl(k))),
        resourceDescription |->
            JsOr(OptGet(resource, "description"),
                 JStr(CASE k = "llm" -> "BlockRun AI API call"
                        [] k = "solana" -> "BlockRun Solana AI API call"
                        [] OTHER -> "BlockRun Image Generation")),
        maxTimeoutSeconds |->
            JsOr(q.details.maxTimeoutSeconds, JNum(DEFAULT_MAX_TIMEOUT)),
        extra |-> q.details.extra,
        extensions |-> q.extensions]

\* Addresses signTypedData accepts as an EIP-712 address.
EvmAddresses == {TEST_ADDRESS, TEST_RECIPIENT}

\* What the environment decides while a payload is built: the clock, the
\* random nonce, whether the signing library accepts the message, whether
\* the Solana key decodes, whether the RPC endpoint answers and with which
\* blockhash.
BuildEnv(now, nonce, signOk, keyOk, rpcOk, blockhash) ==
    [now |-> now, nonce |-> nonce, signOk |-> signOk, keyOk |-> keyOk,
     rpcOk |-> rpcOk, blockhash |-> blockhash]

\* A faulty variant: the EVM builder is always told the Base network,
\* whatever the selected requirement names.
BuildPayload_BaseOnly(k, q, env) ==
    IF k = "solana"
    THEN IF ~env.keyOk THEN Throw(KeyError)
         ELSE createSolanaPaymentPayload(
                 SOLANA_SECRET_KEY, WalletAddress(k), q.details.recipient, q.details.amount,
                 OptGet(q.details.extra, "feePayer"), BuildOptions(k, q),
                 env.rpcOk, env.blockhash)
    ELSE createPaymentPayload(
             TEST_PRIVATE_KEY, WalletAddress(k), q.details.recipient, q.details.amount,
             JStr(BASE_NETWORK), BuildOptions(k, q), env.now, env.nonce,
             env.signOk /\ q.details.recipient.t = "str"
                        /\ q.details.recipient.s \in EvmAddresses)

\* The awaited payload of handlePaymentAndRetry: the PAYMENT-SIGNATURE
\* value, or the throw of the builder.
BuildPayload(k, q, env) ==
    IF k = "solana"
    THEN IF ~env.keyOk THEN Throw(KeyError)
         ELSE createSolanaPaymentPayload(
                 SOLANA_SECRET_KEY, WalletAddress(k), q.details.recipient, q.details.amount,
                 OptGet(q.details.extra, "feePayer"), BuildOptions(k, q),
                 env.rpcOk, env.blockhash)
    ELSE createPaymentPayload(
             TEST_PRIVATE_KEY, WalletAddress(k), q.details.recipient, q.details.amount,
             JsOr(q.details.network, JStr(BASE_NETWORK)), BuildOptions(k, q),
             env.now, env.nonce,
             env.signOk /\ q.details.recipient.t = "str"
                        /\ q.details.recipient.s \in EvmAddresses)

\* A faulty variant: when the builder throws, the retry is sent without a
\* payload.
OnPayloadSettled_SendsUnsigned(k, q, built) ==
    IF ~built.ok
    THEN [q EXCEPT !.pc = "fetch2", !.err = built.err,
                   !.sent = Append(@, HttpRequest(k, q.body, Undefined))]
    ELSE [q EXCEPT !.pc = "fetch2",
                   !.built = Append(@, built.val),
                   !.sent = Append(@, HttpRequest(k, q.body, built.val))]

\* A faulty variant: the retry carries the body of a call without options,
\* not the body of this call.
OnPayloadSettled_OtherBody(k, q, built) ==
    IF ~built.ok THEN Fail(q, built.err)
    ELSE [q EXCEPT !.pc = "fetch2",
                   !.built = Append(@, built.val),
                   !.sent = Append(@, HttpRequest(k, RequestBody(k), built.val))]

\* handlePaymentAndRetry after the builder settled: a throw leaves the
\* orchestrator; a payload is attached to the retry, which is sent with the
\* url and the body object the first request was made from.
OnPayloadSettled(k, q, built) ==
    IF ~built.ok THEN Fail(q, built.err)
    ELSE [q EXCEPT !.pc = "fetch2",
                   !.built = Append(@, built.val),
                   !.sent = Append(@, HttpRequest(k, q.body, built.val))]

\* A faulty variant: a retry answered 402 is treated like the first 402 and
\* paid again.
OnRetryResponse_PaysAgain(k, q, resp) ==
    IF resp.status = 402
    THEN [q EXCEPT !.pc = "building", !.resp2 = resp]
    ELSE IF ~IsOk(resp.status)
    THEN [q EXCEPT !.pc = "errbody2", !.resp2 = resp]
    ELSE [q EXCEPT !.pc = "body2", !.resp2 = resp]

\* A faulty variant: a retry answered 402 drops its payload and the cycle
\* goes back to building one.
OnRetryResponse_StartsOver(k, q, resp) ==
    IF resp.status = 402
    THEN [q EXCEPT !.pc = "building", !.built = <<>>, !.sent = <<q.sent[1]>>]
    ELSE IF ~IsOk(resp.status)
    THEN [q EXCEPT !.pc = "errbody2", !.resp2 = resp]
    ELSE [q EXCEPT !.pc = "body2", !.resp2 = resp]

\* handlePaymentAndRetry after the retry has answered.
OnRetryResponse(k, q, resp) ==
    IF resp.status = 402
    THEN Fail([q EXCEPT !.resp2 = resp],
              IF k = "solana" THEN PaymentRejectedSolana ELSE PaymentRejected)
    ELSE IF ~IsOk(resp.status)
    THEN [q EXCEPT !.pc = "errbody2", !.resp2 = resp]
    ELSE [q EXCEPT !.pc = "body2", !.resp2 = resp]

\* parseFloat(details.amount), in micro-units.
ParseFloatMicro(v) == IF v.t = "num" THEN v.n ELSE ParseFloatTable[v.s]

\* A faulty variant: the cost is assigned to the total, not added.
SpendingAfter_Overwrites(k, spending, q) ==
    IF k = "image" THEN spending
    ELSE [calls |-> spending.calls + 1,
          totalUsd |-> ParseFloatMicro(q.details.amount)]

\* A faulty variant: the update is computed from the counters as they were
\* when the client was built, so a concurrent update is lost.
SpendingAfter_LostUpdate(k, spending, q) ==
    IF k = "image" THEN spending
    ELSE [calls |-> 0 + 1,
          totalUsd |-> 0 + ParseFloatMicro(q.details.amount)]

\* The session counters after a retry that answered 2xx: LLMClient and
\* SolanaLLMClient add 1 and the cost; ImageClient has no such statements.
SpendingAfter(k, spending, q) ==
    IF k = "image" THEN spending
    ELSE [calls |-> spending.calls + 1,
          totalUsd |-> spending.totalUsd + ParseFloatMicro(q.details.amount)]

\* A faulty variant: the counters are updated before the status of the
\* retry is looked at.
Credits_AnyAnswer(k, resp) == TRUE

\* Does this retry response make the orchestrator update the counters?
Credits(k, resp) == IsOk(resp.status)

\* The catch around the read of an error body.
ErrorBodyOf(bodyText) ==
    LET parsed == JSON_parse(bodyText) IN
    IF parsed.ok THEN parsed.val ELSE JObj([error |-> JStr("Request failed")])

\* A faulty variant: the body as the server sent it is put on the error.
OnErrorBody_Raw(q, resp, prefix) ==
    Fail(q, APIError(prefix \o ToString(resp.status), resp.status,
                     ErrorBodyOf(resp.body)))

\* The throw of a non-2xx, non-402 response once its body was read.
OnErrorBody(q, resp, prefix) ==
    Fail(q, APIError(prefix \o ToString(resp.status), resp.status,
                     sanitizeErrorResponse(ErrorBodyOf(resp.body))))

\* The promise response.json() returned to the caller settles.
OnResultBody(q, resp) ==
    IF JSON_parse(resp.body).ok
    THEN [q EXCEPT !.pc = "success"]
    ELSE Fail(q, BodySyntaxError)

(***************************************************************************)
(* What the server may answer.                                             *)
(***************************************************************************)
EvmOption(amount) ==
    JObj([scheme |-> JStr("exact"), network |-> JStr(BASE_NETWORK),
          amount |-> JStr(amount), asset |-> JStr(USDC_BASE),
          payTo |-> JStr(TEST_RECIPIENT), maxTimeoutSeconds |-> JNum(300),
          extra |-> JObj([name |-> JStr("USD Coin"), version |-> JStr("2")])])

SolanaOption(amount) ==
    JObj([scheme |-> JStr("exact"), network |-> JStr(SOLANA_NETWORK),
          amount |-> JStr(amount), asset |-> JStr(USDC_SOLANA),
          payTo |-> JStr(SOLANA_RECIPIENT), maxTimeoutSeconds |-> JNum(300),
          extra |-> JObj([feePayer |-> JStr(FEE_PAYER)])])

\* obj with field k set to v / without field k.
With(obj, k, v) == JObj((k :> v) @@ obj.o)
Without(obj, k) == JObj([x \in (DOMAIN obj.o) \ {k} |-> obj.o[x]])

\* The option of the rail client k pays on.
RailOption(k, amount) ==
    IF k = "solana" THEN SolanaOption(amount) ELSE EvmOption(amount)

ChallengeOf(accepts) == JObj([x402Version |-> JNum(2), accepts |-> JArr(accepts)])

ResourceOf(url, description) ==
    JObj([url |-> JStr(url), description |-> JStr(description)])

ChatResult == JObj([id |-> JStr("chatcmpl-test123"), object |-> JStr("chat.completion")])
ErrorBody ==
    JObj([error |-> JStr("Invalid model"), code |-> JStr("e1"),
          internal_stack |-> JStr("/var/app/handler.js:123")])
HtmlBody == JunkText("<html>Bad Gateway</html>")

\* Header-borne and body-borne 402 responses for a challenge.
InHeader(challenge) ==
    Response(402, Base64Of(JsonText(challenge)), JunkText("Payment Required"))
InBody(challenge) == Response(402, JNull, JsonText(challenge))

\* A small set of first responses that takes every branch of the cycle.
CompactFirst(k) ==
    { Response(200, JNull, JsonText(ChatResult)),
      Response(200, JNull, HtmlBody),
      Response(500, JNull, JsonText(ErrorBody)),
      Response(402, JNull, HtmlBody),
      InHeader(ChallengeOf(<<>>)),
      InHeader(With(ChallengeOf(<<RailOption(k, "1000000")>>), "resource",
                    ResourceOf(ApiUrl(k) \o "/v1/chat/completions", "BlockRun AI API call"))),
      InBody(ChallengeOf(<<RailOption(k, "2500")>>)) }

\* The options a wide challenge may list.
WideOptions ==
    { EvmOption("1000000"),
      SolanaOption("2500"),
      With(With(With(EvmOption("2500"), "network", JStr("eip155:1")),
                "asset", JStr("0xEvilToken")),
           "extra", JObj([name |-> JStr("Evil Coin"), version |-> JStr("9")])),
      With(SolanaOption("1000000"), "payTo", JStr(TEST_RECIPIENT)),
      With(SolanaOption("2500"), "extra", JObj(<<>>)),
      Without(SolanaOption("2500"), "extra"),
      With(SolanaOption("2500"), "network", JStr("solana:EtWTRABZaYq6iMfeYKouRu166VU2xqa1")),
      With(With(SolanaOption("2500"), "asset", JStr("So11111111111111111111111111111111111111112")),
           "maxTimeoutSeconds", JNum(60)),
      With(Without(Without(SolanaOption("2500"), "amount"), "maxTimeoutSeconds"),
           "maxAmountRequired", JStr("1000000")),
      With(Without(EvmOption("2500"), "amount"), "maxAmountRequired", JStr("2500")),
      With(EvmOption("2500"), "maxAmountRequired", JStr("1000000")),
      Without(EvmOption("2500"), "amount"),
      Without(SolanaOption("2500"), "amount"),
      With(EvmOption("2500"), "amount", JStr("abc")),
      With(EvmOption("2500"), "amount", JStr("0x10")),
      Without(EvmOption("1000000"), "maxTimeoutSeconds"),
      With(EvmOption("1000000"), "maxTimeoutSeconds", JNum(-1)),
      With(EvmOption("1000000"), "maxTimeoutSeconds", JStr("300")),
      Without(Without(EvmOption("1000000"), "network"), "payTo"),
      JNull }

WideAccepts ==
    { <<o>> : o \in WideOptions }
    \cup { <<EvmOption("1000000"), SolanaOption("2500")>>,
           <<SolanaOption("2500"), EvmOption("1000000")>>,
           <<JNull, SolanaOption("2500")>>,
           <<EvmOption("2500"), With(SolanaOption("1000000"), "extra", JNull),
             SolanaOption("2500")>> }

WideResources ==
    { ResourceOf("https://blockrun.ai/api/v2/models", "BlockRun AI API call"),
      ResourceOf("https://sol.blockrun.ai/api/v1/chat/completions", "BlockRun AI API call"),
      ResourceOf("https://blockrun.ai:8443/api/v1/chat/completions", "BlockRun AI API call"),
      ResourceOf("https://sol.blockrun.ai:8443/api/v1/chat/completions", "BlockRun AI API call"),
      ResourceOf("http://blockrun.ai/api/v1/chat", "BlockRun AI API call"),
      ResourceOf("https://evil.blockrun.ai/v1/chat", "BlockRun AI API call"),
      ResourceOf("https://malicious.com/steal", "BlockRun AI API call"),
      ResourceOf("not-a-valid-url", "BlockRun AI API call"),
      ResourceOf("https://blockrun.ai/api/v2/models", "BlockRun API (U+2014) chat"),
      JObj([description |-> JStr("no url")]),
      JNull }

\* Well-formed challenges: every list of options, without a resource and
\* with each resource; one with extensions.
WideChallenges ==
    { ChallengeOf(a) : a \in WideAccepts }
    \cup { With(ChallengeOf(<<o>>), "resource", r) :
              o \in {EvmOption("1000000"), SolanaOption("2500")}, r \in WideResources }
    \cup { With(ChallengeOf(<<o>>), "extensions", JObj([bazaar |-> JStr("discovery")])) :
              o \in {EvmOption("1000000"), SolanaOption("2500")} }

\* JSON values that are no well-formed challenge.
MalformedChallenges ==
    { JNull, JNum(402), JStr("Payment Required"), JArr(<<>>),
      JObj(<<>>),
      JObj([x402Version |-> JNum(2)]),
      JObj([x402 |-> JBool(TRUE)]),
      JObj([x402Version |-> JNum(2), accepts |-> JStr("not an array")]),
      JObj([x402Version |-> JNum(2), accepts |-> JObj([network |-> JStr(BASE_NETWORK)])]),
      JObj([x402Version |-> JNum(2), accepts |-> JNull]),
      JObj([x402Version |-> JNum(0), accepts |-> JArr(<<>>)]),
      JObj([x402 |-> JBool(TRUE), accepts |-> JArr(<<>>)]),
      ChallengeOf(<<>>),
      JObj([error |-> JStr("Payment required"), accepts |-> JArr(<<EvmOption("2500")>>)]) }

\* Every first response of the wide set.
WideFirst ==
    { Response(200, JNull, JsonText(ChatResult)),
      Response(200, JNull, HtmlBody),
      Response(500, JNull, JsonText(ErrorBody)),
      Response(500, JNull, HtmlBody),
      Response(429, JNull, JsonText(JNull)),
      Response(402, JNull, HtmlBody),
      Response(402, RawString("invalid!!!"), JsonText(ChallengeOf(<<EvmOption("2500")>>))),
      Response(402, Base64Of(JunkText("not json")), JsonText(ChallengeOf(<<EvmOption("2500")>>))),
      Response(402, RawString(""), JsonText(ChallengeOf(<<EvmOption("2500")>>))),
      Response(402, RawString(""), JsonText(ChallengeOf(<<SolanaOption("2500")>>))) }
    \cup { InHeader(c) : c \in WideChallenges \cup MalformedChallenges }
    \cup { InBody(c) : c \in WideChallenges \cup MalformedChallenges }

\* The answers to the paid retry.
RetryResponses ==
    { Response(200, JNull, JsonText(ChatResult)),
      Response(200, JNull, HtmlBody),
      Response(402, JNull, JsonText(ChallengeOf(<<EvmOption("2500")>>))),
      Response(500, JNull, JsonText(ErrorBody)),
      Response(500, JNull, HtmlBody) }

\* What the clock, the random source and the RPC endpoint may yield.
Times == {1700000000}
Blockhashes == {"blockhash-1"}

(***************************************************************************)
(* State.                                                                  *)
(***************************************************************************)
VARIABLES
    kind,                \* which orchestrator the instance is
    profile,             \* which set of server answers the run draws from
    req,                 \* the logical requests issued on the instance
    sessionCalls,        \* this.sessionCalls
    sessionTotalUsd,     \* this.sessionTotalUsd, in micro-USD
    modelPricingCache,   \* this.modelPricingCache
    modelPricingPromise, \* this.modelPricingPromise
    promises,            \* the promises fetchModelPricing has returned
    callers,             \* the callers of getModelPricing
    probe                \* a pure function under test: its input and output

payVars == <<kind, profile, req, sessionCalls, sessionTotalUsd>>
pricingVars == <<modelPricingCache, modelPricingPromise, promises, callers>>
vars == <<kind, profile, req, sessionCalls, sessionTotalUsd,
          modelPricingCache, modelPricingPromise, promises, callers, probe>>

Req == 1..MaxReq

\* The requests a run issues: all of them on the compact set of answers,
\* one on the wide set.
Issued == IF profile = "compact" THEN Req ELSE {1}

FirstResponses == IF profile = "compact" THEN CompactFirst(kind) ELSE WideFirst

\* A faulty variant: the nonce is the same for every payload.
NonceSpace_Fixed == {"0x1"}

\* createNonce(): 32 bytes of crypto.getRandomValues, a value no earlier
\* call returned (a repeat of a 256-bit random value is not modelled).  The
\* values are interchangeable: under the compact profile one of them stands
\* for all.
NonceSpace ==
    LET used == IF kind = "solana" THEN {}
                ELSE UNION {{DecodePayload(req[r].built[i]).o.payload.o.authorization.o.nonce.s :
                                i \in DOMAIN req[r].built} : r \in Req}
        fresh == {i \in 1..(MaxReq + 1) : ("0x" \o ToString(i)) \notin used}
    IN IF profile = "compact"
       THEN {"0x" \o ToString(CHOOSE i \in fresh : \A j \in fresh : i <= j)}
       ELSE {"0x" \o ToString(i) : i \in fresh}

\* getSpending()
getSpending == [totalUsd |-> sessionTotalUsd, calls |-> sessionCalls]

NoProbe == [fn |-> "none"]

Callers == 1..MaxCallers

\* A caller of getModelPricing: where it stands, the promise it awaits
\* (an index of promises, 0 for none) and what its call settled to.
NewCaller == [pc |-> "idle", awaits |-> 0, result |-> Undefined]

\* The fields as the class declares them: no cache, no promise (0 stands
\* for null; a promise is an index of promises).
PricingInit ==
    /\ modelPricingCache = JNull
    /\ modelPricingPromise = 0
    /\ promises = <<>>
    /\ callers = [c \in Callers |-> NewCaller]

\* A fresh client instance with no request issued.
PayInit(p) ==
    /\ kind \in Kinds
    /\ profile = p
    /\ req = [r \in Req |-> NewRequest]
    /\ sessionCalls = 0
    /\ sessionTotalUsd = 0

Init == PayInit("compact") /\ PricingInit /\ probe = NoProbe
InitWide == PayInit("wide") /\ PricingInit /\ probe = NoProbe

(***************************************************************************)
(* The steps of a logical request.  Each is the code that runs between two *)
(* suspension points of requestWithPayment / handlePaymentAndRetry.        *)
(***************************************************************************)
\* The caller calls requestWithPayment with a body object (in the wide
\* profile with or without an option set): the first fetch is issued.
Call(r) ==
    /\ r \in Issued
    /\ req[r].pc = "idle"
    /\ \A p \in 1..(r - 1) : req[p].pc # "idle"
    /\ \E body \in {RequestBody(kind)} \cup
                   (IF profile = "compact" THEN {}
                    ELSE {IF kind = "image"
                          THEN With(RequestBody(kind), "quality", JStr("hd"))
                          ELSE With(RequestBody(kind), "temperature", JNum(1))}) :
          req' = [req EXCEPT ![r] = [@ EXCEPT !.pc = "fetch1", !.body = body,
                                                !.sent = <<HttpRequest(kind, body, Undefined)>>]]
    /\ UNCHANGED <<kind, profile, sessionCalls, sessionTotalUsd, pricingVars, probe>>

\* The first fetch rejects: network failure or the timeout's abort.
FirstFetchFails(r) ==
    /\ req[r].pc = "fetch1"
    /\ \E e \in {AbortError, NetworkError} :
          req' = [req EXCEPT ![r] = OnFetchError(kind, @, e)]
    /\ UNCHANGED <<kind, profile, sessionCalls, sessionTotalUsd, pricingVars, probe>>

\* The first fetch answers.
FirstFetchResponds(r) ==
    /\ req[r].pc = "fetch1"
    /\ \E resp \in FirstResponses :
          req' = [req EXCEPT ![r] = OnFirstResponse(kind, @, resp)]
    /\ UNCHANGED <<kind, profile, sessionCalls, sessionTotalUsd, pricingVars, probe>>

\* The body of a header-less 402 was read.
ChallengeBodyRead(r) ==
    /\ req[r].pc = "body402"
    /\ req' = [req EXCEPT ![r] = OnChallengeBody(kind, @)]
    /\ UNCHANGED <<kind, profile, sessionCalls, sessionTotalUsd, pricingVars, probe>>

\* The payload builder settles; on success the retry is sent.
PayloadSettles(r) ==
    /\ req[r].pc = "building"
    /\ \E now \in Times, nonce \in NonceSpace, signOk \in BOOLEAN,
          keyOk \in BOOLEAN, rpcOk \in BOOLEAN, blockhash \in Blockhashes :
          req' = [req EXCEPT ![r] =
                    OnPayloadSettled(kind, @,
                        BuildPayload(kind, @,
                            BuildEnv(now, nonce, signOk, keyOk, rpcOk, blockhash)))]
    /\ UNCHANGED <<kind, profile, sessionCalls, sessionTotalUsd, pricingVars, probe>>

\* The retry rejects: network failure or the timeout's abort.
RetryFails(r) ==
    /\ req[r].pc = "fetch2"
    /\ \E e \in {AbortError, NetworkError} :
          req' = [req EXCEPT ![r] = OnFetchError(kind, @, e)]
    /\ UNCHANGED <<kind, profile, sessionCalls, sessionTotalUsd, pricingVars, probe>>

\* The retry answers; a 2xx answer updates the session counters before the
\* body is read.
RetryResponds(r) ==
    /\ req[r].pc = "fetch2"
    /\ \E resp \in RetryResponses :
          LET after == IF Credits(kind, resp)
                       THEN SpendingAfter(kind, getSpending, req[r])
                       ELSE getSpending
          IN /\ req' = [req EXCEPT ![r] = OnRetryResponse(kind, @, resp)]
             /\ sessionCalls' = after.calls
             /\ sessionTotalUsd' = after.totalUsd
    /\ UNCHANGED <<kind, profile, pricingVars, probe>>

\* The body of a non-2xx, non-402 answer was read (or its read failed).
ErrorBodyRead(r) ==
    /\ req[r].pc \in {"errbody1", "errbody2"}
    /\ req' = [req EXCEPT ![r] =
                 IF @.pc = "errbody1"
                 THEN OnErrorBody(@, @.resp, "API error: ")
                 ELSE OnErrorBody(@, @.resp2, "API error after payment: ")]
    /\ UNCHANGED <<kind, profile, sessionCalls, sessionTotalUsd, pricingVars, probe>>

\* The body of a 2xx answer was read (or its read failed).
ResultBodyRead(r) ==
    /\ req[r].pc \in {"body1", "body2"}
    /\ req' = [req EXCEPT ![r] =
                 OnResultBody(@, IF @.pc = "body1" THEN @.resp ELSE @.resp2)]
    /\ UNCHANGED <<kind, profile, sessionCalls, sessionTotalUsd, pricingVars, probe>>

PayNext ==
    \E r \in Req :
        \/ Call(r)
        \/ FirstFetchFails(r)
        \/ FirstFetchResponds(r)
        \/ ChallengeBodyRead(r)
        \/ PayloadSettles(r)
        \/ RetryFails(r)
        \/ RetryResponds(r)
        \/ ErrorBodyRead(r)
        \/ ResultBodyRead(r)

\* Concurrent requests on one instance, compact set of server answers.
Spec == Init /\ [][PayNext]_vars

\* One request on one instance, wide set of server answers.
SpecWide == InitWide /\ [][PayNext]_vars

\* fetchWithTimeout: the timer is armed before fetch is called and cleared
\* in the finally block once fetch has settled; while it is armed its
\* callback aborts the fetch, which rejects with AbortError.
TimeoutFires(r) ==
    /\ req[r].pc \in {"fetch1", "fetch2"}
    /\ req' = [req EXCEPT ![r] = OnFetchError(kind, @, AbortError)]
    /\ UNCHANGED <<kind, profile, sessionCalls, sessionTotalUsd, pricingVars, probe>>

\* The cycle when the peers may stall for ever: an armed timer fires unless
\* the fetch settles first, and the local signing of the EVM builders
\* settles; no answer, body or RPC result is promised.
SpecTimeout ==
    /\ InitWide
    /\ [][PayNext]_vars
    /\ \A r \in Req : WF_vars(TimeoutFires(r))
    /\ \A r \in Req : WF_vars(kind # "solana" /\ PayloadSettles(r))

\* The cycle when every operation it awaits settles: each fetch answers,
\* rejects or is aborted, each body read and each payload builder returns
\* or throws.  The read of a header-less 402's body is enabled exactly at
\* "body402" and leaves it, so its weak fairness is []<>(pc # "body402").
SpecSettling ==
    /\ InitWide
    /\ [][PayNext]_vars
    /\ \A r \in Req :
          /\ WF_vars(FirstFetchFails(r) \/ FirstFetchResponds(r))
          /\ []<>(req[r].pc # "body402")
          /\ WF_vars(PayloadSettles(r))
          /\ WF_vars(RetryFails(r) \/ RetryResponds(r))
          /\ WF_vars(ErrorBodyRead(r))
          /\ WF_vars(ResultBodyRead(r))

(***************************************************************************)
(* Model pricing of LLMClient: getModelPricing, fetchModelPricing.         *)
(***************************************************************************)
\* What the fetch of /v1/models may come to: a rejection or a response.
FetchRejects(e) == [rejected |-> TRUE, err |-> e]
FetchAnswers(resp) == [rejected |-> FALSE, resp |-> resp]

ModelEntry(id, inputPrice, outputPrice) ==
    JObj([id |-> JStr(id), inputPrice |-> JNum(inputPrice),
          outputPrice |-> JNum(outputPrice)])

ModelLists ==
    { <<>>,
      <<ModelEntry("openai/gpt-4o", 250, 1000)>>,
      <<ModelEntry("openai/gpt-4o", 250, 1000), ModelEntry("nvidia/gpt-oss", 0, 0)>>,
      <<ModelEntry("openai/gpt-4o", 250, 1000), ModelEntry("openai/gpt-4o", 300, 1200)>> }

PricingAnswers ==
    { FetchRejects(AbortError), FetchRejects(NetworkError),
      FetchAnswers(Response(500, JNull, JsonText(ErrorBody))),
      FetchAnswers(Response(200, JNull, HtmlBody)),
      FetchAnswers(Response(200, JNull, JsonText(JNull))),
      FetchAnswers(Response(200, JNull, JsonText(JObj(<<>>)))) }
    \cup { FetchAnswers(Response(200, JNull, JsonText(JObj([data |-> JArr(l)])))) :
              l \in ModelLists }

\* listModels(): the model list of the answer, or the throw.
listModels(answer) ==
    IF answer.rejected THEN Throw(answer.err)
    ELSE IF ~IsOk(answer.resp.status)
    THEN Throw(APIError("Failed to list models: " \o ToString(answer.resp.status),
                        answer.resp.status,
                        sanitizeErrorResponse(ErrorBodyOf(answer.resp.body))))
    ELSE LET data == JSON_parse(answer.resp.body) IN
         IF ~data.ok THEN data
         ELSE IF ~Readable(data.val) THEN Throw(TypeErrorNullRead)
         ELSE Ok(JsOr(Get(data.val, "data"), JArr(<<>>)))

\* The Map the loop of fetchModelPricing builds: a later entry of an id
\* replaces an earlier one.
PricingMap(models) ==
    LET ids == {models[i].o.id.s : i \in DOMAIN models}
        LastOf(id) == CHOOSE i \in DOMAIN models :
                         /\ models[i].o.id.s = id
                         /\ \A j \in DOMAIN models : models[j].o.id.s = id => j <= i
    IN [t |-> "map",
        m |-> [id \in ids |->
                 [inputPrice |-> Get(models[LastOf(id)], "inputPrice"),
                  outputPrice |-> Get(models[LastOf(id)], "outputPrice")]]]

\* fetchModelPricing(): what its promise settles to.
fetchModelPricing(answer) ==
    LET models == listModels(answer) IN
    IF ~models.ok THEN models
    ELSE IF models.val.t # "arr"
    THEN Throw(ErrorOf("TypeError", "models is not iterable"))
    ELSE Ok(PricingMap(models.val.a))

PendingPromise == [state |-> "pending", outcome |-> Undefined]
SettledPromise(outcome) ==
    [state |-> IF outcome.ok THEN "fulfilled" ELSE "rejected", outcome |-> outcome]

\* A faulty variant: the cache is not consulted.
getModelPricingEntry_NoCache(cache, promise) ==
    IF promise # 0 THEN "join" ELSE "fetch"

\* A faulty variant: a caller that finds no cache fetches, whether or not a
\* fetch is in flight.
getModelPricingEntry_NoJoin(cache, promise) ==
    IF Truthy(cache) THEN "cached" ELSE "fetch"

\* The branch getModelPricing takes on entry: the cache, else the promise in
\* flight, else a fetch of its own.
getModelPricingEntry(cache, promise) ==
    IF Truthy(cache) THEN "cached"
    ELSE IF promise # 0 THEN "join"
    ELSE "fetch"

\* A caller calls getModelPricing: the code up to its return or first await.
GetModelPricing(c) ==
    /\ callers[c].pc = "idle"
    /\ \A p \in 1..(c - 1) : callers[p].pc # "idle"
    /\ LET entry == getModelPricingEntry(modelPricingCache, modelPricingPromise) IN
       CASE entry = "cached" ->
              /\ callers' = [callers EXCEPT ![c] =
                                [pc |-> "done", awaits |-> 0, result |-> modelPricingCache]]
              /\ UNCHANGED <<modelPricingPromise, promises>>
         [] entry = "join" ->
              /\ callers' = [callers EXCEPT ![c] =
                                [@ EXCEPT !.pc = "joined", !.awaits = modelPricingPromise]]
              /\ UNCHANGED <<modelPricingPromise, promises>>
         [] OTHER ->
              /\ promises' = Append(promises, PendingPromise)
              /\ modelPricingPromise' = Len(promises) + 1
              /\ callers' = [callers EXCEPT ![c] =
                                [@ EXCEPT !.pc = "owner", !.awaits = Len(promises) + 1]]
    /\ UNCHANGED <<modelPricingCache, payVars, probe>>

\* The promise of a fetchModelPricing call settles.
PricingFetchSettles(p) ==
    /\ p \in DOMAIN promises
    /\ promises[p].state = "pending"
    /\ \E answer \in PricingAnswers :
          promises' = [promises EXCEPT ![p] = SettledPromise(fetchModelPricing(answer))]
    /\ UNCHANGED <<modelPricingCache, modelPricingPromise, callers, payVars, probe>>

\* A faulty variant: the promise field is cleared on fulfilment only (no
\* finally block).
OwnerResumes_NoFinally(c) ==
    /\ callers[c].pc = "owner"
    /\ promises[callers[c].awaits].state # "pending"
    /\ LET outcome == promises[callers[c].awaits].outcome IN
       /\ modelPricingCache' = IF outcome.ok THEN outcome.val ELSE modelPricingCache
       /\ modelPricingPromise' = IF outcome.ok THEN 0 ELSE modelPricingPromise
       /\ callers' = [callers EXCEPT ![c] =
                        IF outcome.ok
                        THEN [@ EXCEPT !.pc = "done", !.result = outcome.val]
                        ELSE [@ EXCEPT !.pc = "failed", !.result = outcome.err]]
    /\ UNCHANGED <<promises, payVars, probe>>

\* The caller that started the fetch resumes after its await: the cache is
\* set on fulfilment, and the finally block clears the promise field.
OwnerResumes(c) ==
    /\ callers[c].pc = "owner"
    /\ promises[callers[c].awaits].state # "pending"
    /\ LET outcome == promises[callers[c].awaits].outcome IN
       /\ modelPricingCache' = IF outcome.ok THEN outcome.val ELSE modelPricingCache
       /\ callers' = [callers EXCEPT ![c] =
                        IF outcome.ok
                        THEN [@ EXCEPT !.pc = "done", !.result = outcome.val]
                        ELSE [@ EXCEPT !.pc = "failed", !.result = outcome.err]]
    /\ modelPricingPromise' = 0
    /\ UNCHANGED <<promises, payVars, probe>>

\* A caller that was handed the promise in flight resumes once it settled.
WaiterResumes(c) ==
    /\ callers[c].pc = "joined"
    /\ promises[callers[c].awaits].state # "pending"
    /\ LET outcome == promises[callers[c].awaits].outcome IN
       callers' = [callers EXCEPT ![c] =
                     IF outcome.ok
                     THEN [@ EXCEPT !.pc = "done", !.result = outcome.val]
                     ELSE [@ EXCEPT !.pc = "failed", !.result = outcome.err]]
    /\ UNCHANGED <<modelPricingCache, modelPricingPromise, promises, payVars, probe>>

PricingNext ==
    \/ \E c \in Callers : GetModelPricing(c)
    \/ \E p \in 1..MaxCallers : PricingFetchSettles(p)
    \/ \E c \in Callers : OwnerResumes(c)
    \/ \E c \in Callers : WaiterResumes(c)

InitPricing ==
    /\ kind = "llm"
    /\ profile = "compact"
    /\ req = [r \in Req |-> NewRequest]
    /\ sessionCalls = 0
    /\ sessionTotalUsd = 0
    /\ PricingInit
    /\ probe = NoProbe

\* Callers of getModelPricing on one LLMClient instance.
SpecPricing == InitPricing /\ [][PricingNext]_vars

(***************************************************************************)
(* The challenge codec on its own: a header value is parsed, and what was  *)
(* parsed is handed to extractPaymentDetails.                              *)
(***************************************************************************)
\* Header values: strings that are no base64, base64 of text that is no
\* JSON, and the base64 of every JSON value of the wide set.
HeaderValues ==
    { RawString("invalid!!!"), RawString(""), RawString("%%%"),
      Base64Of(JunkText("not json")), Base64Of(JunkText("{accepts: [")),
      Base64Of(JunkText("")) }
    \cup { Base64Of(JsonText(c)) : c \in WideChallenges \cup MalformedChallenges }

PreferredNetworks == {Undefined, JStr(SOLANA_NETWORK), JStr(BASE_NETWORK)}

\* parsePaymentRequired is applied to a header value.
ParseProbe ==
    /\ probe = NoProbe
    /\ \E h \in HeaderValues :
          probe' = [fn |-> "parsePaymentRequired", input |-> h,
                    out |-> parsePaymentRequired(h)]
    /\ UNCHANGED <<payVars, pricingVars>>

\* extractPaymentDetails is applied to what parsePaymentRequired returned.
ExtractProbe ==
    /\ probe.fn = "parsePaymentRequired"
    /\ probe.out.ok
    /\ \E n \in PreferredNetworks :
          probe' = [fn |-> "extractPaymentDetails", input |-> probe.out.val,
                    preferredNetwork |-> n,
                    out |-> extractPaymentDetails(probe.out.val, n)]
    /\ UNCHANGED <<payVars, pricingVars>>

\* A challenge object whose accepts is a non-empty array is encoded the way
\* the tests encode it, btoa(JSON.stringify(c)), and handed to
\* parsePaymentRequired.
RoundTripProbe ==
    /\ probe = NoProbe
    /\ \E c \in {v \in WideChallenges \cup MalformedChallenges :
                    /\ v.t = "obj" /\ "accepts" \in DOMAIN v.o
                    /\ v.o.accepts.t = "arr" /\ v.o.accepts.a # <<>>} :
          LET encoded == btoa(JSON_stringify(c)) IN
          probe' = [fn |-> "roundTrip", input |-> c,
                    out |-> IF encoded.ok THEN parsePaymentRequired(encoded.val)
                            ELSE Throw(encoded.err)]
    /\ UNCHANGED <<payVars, pricingVars>>

\* validateResourceUrl is applied to a resource URL and a base URL.
ResourceUrlProbe ==
    /\ probe = NoProbe
    /\ \E url \in DOMAIN UrlTable \cup {"not-a-valid-url", "", "[num]"},
          baseUrl \in {DEFAULT_API_URL, SOLANA_API_URL, "http://localhost:3000",
                       "not-a-valid-url"} :
          probe' = [fn |-> "validateResourceUrl", url |-> url, baseUrl |-> baseUrl,
                    out |-> validateResourceUrl(url, baseUrl)]
    /\ UNCHANGED <<payVars, pricingVars>>

\* sanitizeErrorResponse is applied to two parsed error bodies.
SanitizeProbe ==
    /\ probe = NoProbe
    /\ \E a, b \in
            { JNull, JNum(500), JStr("Internal Server Error"), JBool(FALSE), JArr(<<>>),
              JArr(<<JStr("Invalid model")>>), JObj(<<>>), ErrorBody,
              With(ErrorBody, "api_key", JStr("sk_live_x")),
              Without(ErrorBody, "internal_stack"),
              Without(ErrorBody, "code"), Without(ErrorBody, "error"),
              With(ErrorBody, "code", JNum(7)),
              With(ErrorBody, "error", JObj([message |-> JStr("nested")])),
              With(ErrorBody, "error", JNull),
              JObj([message |-> JStr("raw message"), stack |-> JStr("at handler.js:1")]) } :
          probe' = [fn |-> "sanitizeErrorResponse", input |-> a, other |-> b,
                    out |-> sanitizeErrorResponse(a),
                    outOther |-> sanitizeErrorResponse(b)]
    /\ UNCHANGED <<payVars, pricingVars>>

\* A client is constructed with an apiUrl option (a private key given):
\* apiUrl = options.apiUrl || <default>; validateApiUrl(apiUrl);
\* this.apiUrl = apiUrl.replace(/\/$/, ""); url is where the first request
\* of the constructed client goes.
ConstructProbe ==
    /\ probe = NoProbe
    /\ \E k \in Kinds,
          option \in {Undefined, JStr("")}
                     \cup {JStr(u) : u \in {"https://blockrun.ai/api", "https://blockrun.ai/api/",
                                            "https://sol.blockrun.ai/api",
                                            "http://localhost:3000", "http://127.0.0.1:8080",
                                            "http://insecure.com", "http://192.168.1.1",
                                            "http://blockrun.ai/api/v1/chat",
                                            "ftp://example.com", "not-a-valid-url",
                                            "api.blockrun.ai"}} :
          LET apiUrl == ToStr(JsOr(option, JStr(ApiUrl(k))))
              checked == validateApiUrl(apiUrl)
              stripped == IF apiUrl = "https://blockrun.ai/api/"
                          THEN "https://blockrun.ai/api" ELSE apiUrl
          IN probe' = [fn |-> "constructor", kind |-> k, option |-> option,
                       out |-> IF checked.ok THEN Ok(stripped) ELSE checked,
                       url |-> IF checked.ok THEN stripped \o Endpoint(k) ELSE ""]
    /\ UNCHANGED <<payVars, pricingVars>>

CodecNext ==
    \/ ConstructProbe
    \/ ParseProbe
    \/ ExtractProbe
    \/ RoundTripProbe
    \/ ResourceUrlProbe
    \/ SanitizeProbe

\* The codec applied to header values.
SpecCodec == InitPricing /\ [][CodecNext]_vars

(***************************************************************************)
(* Properties.                                                             *)
(***************************************************************************)
\* The request has received the answer to its first / second fetch.
Answered1(q) == q.resp.status # 0
Answered2(q) == q.resp2.status # 0

\* The retry of the request was answered 2xx.
PaidOk(q) == IsOk(q.resp2.status)

\* The integer the amount of the selected requirement denotes.
AmountOf(q) == BigIntOf(q.details.amount)

RECURSIVE SumAmounts(_)
SumAmounts(S) ==
    IF S = {} THEN 0
    ELSE LET r == CHOOSE x \in S : TRUE
         IN AmountOf(req[r]) + SumAmounts(S \ {r})

\* C1: in every orchestrator, once the request carrying PAYMENT-SIGNATURE
\* was answered 402 the call has failed with the PaymentError "Payment was
\* rejected", and it has sent exactly two HTTP requests and built exactly
\* one payload: no third request, no second payload, in any later state.
C1_RejectedEndsCycle ==
    \A r \in Req :
        req[r].resp2.status = 402 =>
            /\ req[r].pc = "failed"
            /\ req[r].err.class = "PaymentError"
            /\ req[r].err.message \in
                  {"Payment was rejected. Check your wallet balance.",
                   "Payment was rejected. Check your Solana USDC balance."}
            /\ Len(req[r].sent) = 2
            /\ Len(req[r].built) = 1

C1_Witness ==
    \E r \in Req :
        /\ req[r].resp2.status = 402
        /\ req[r].pc = "failed"
        /\ req[r].sent[2].sig = req[r].built[1]

\* C2: a logical request sends at most two HTTP requests, the first without
\* PAYMENT-SIGNATURE and the second with the one payload it built; a fetch
\* that rejects (network error, timeout) and a body that is no JSON end the
\* call as failed with no send after the one that met them.
C2_AtMostTwoSends ==
    \A r \in Req :
        LET q == req[r] IN
        /\ Len(q.sent) <= 2
        /\ Len(q.sent) >= 1 => q.sent[1].sig = Undefined
        /\ Len(q.sent) = 2 => q.sent[2].sig # Undefined /\ q.built = <<q.sent[2].sig>>
        /\ (q.pc = "failed" /\ q.err \in {AbortError, NetworkError})
              => Len(q.sent) = IF Answered1(q) THEN 2 ELSE 1
        /\ (Answered1(q) /\ q.resp.body.t = "junk"
                /\ (q.resp.status # 402 \/ HeaderFalsy(q.resp.header))
                /\ q.pc \notin {"body1", "errbody1", "body402"})
              => q.pc = "failed" /\ Len(q.sent) = 1
        /\ (Answered2(q) /\ q.resp2.status # 402 /\ q.resp2.body.t = "junk"
                /\ q.pc \notin {"body2", "errbody2"})
              => q.pc = "failed" /\ Len(q.sent) = 2

C2_Witness ==
    \E r \in Req :
        /\ req[r].pc = "failed"
        /\ req[r].err = AbortError
        /\ Len(req[r].sent) = 2

\* C3: in LLMClient and SolanaLLMClient every retry answered 2xx has added
\* exactly 1 to the call counter and exactly the amount of the selected
\* requirement to the total (in micro-USD); a fresh instance after one paid
\* cycle for "1000000" reports totalUsd 1.0 and calls 1.
C3_PaidCycleCredits ==
    kind \in {"llm", "solana"} =>
        LET paid == {r \in Req : PaidOk(req[r])} IN
        /\ sessionCalls = Cardinality(paid)
        /\ sessionTotalUsd = SumAmounts(paid)
        /\ (\E r \in paid : paid = {r} /\ req[r].details.amount = JStr("1000000"))
              => getSpending = [totalUsd |-> 1 * MICRO_PER_USD, calls |-> 1]

C3_Witness ==
    /\ kind = "llm"
    /\ PaidOk(req[1])
    /\ req[1].details.amount = JStr("1000000")
    /\ \A r \in Req \ {1} : ~PaidOk(req[r])
    /\ getSpending = [totalUsd |-> MICRO_PER_USD, calls |-> 1]

\* The calls that have been counted in the session, were every call that
\* throws to leave the counters alone.
CountedIfThrowsNeverCount == {r \in Req : PaidOk(req[r]) /\ req[r].pc # "failed"}

\* C4 as claimed: no call that has thrown has changed the counters.
C4_Original ==
    /\ sessionCalls = IF kind = "image" THEN 0 ELSE Cardinality(CountedIfThrowsNeverCount)
    /\ sessionTotalUsd = IF kind = "image" THEN 0 ELSE SumAmounts(CountedIfThrowsNeverCount)

\* C4, amended: the counters are changed only by a retry answered 2xx and
\* never reset; a call that has thrown has left them as they were, unless
\* its retry was answered 2xx and the body of that answer was no JSON (the
\* counters are updated before the body is read).
C4_ThrowLeavesSpending ==
    LET counted == {r \in Req : kind # "image" /\ PaidOk(req[r])} IN
    /\ sessionCalls = Cardinality(counted)
    /\ sessionTotalUsd = SumAmounts(counted)
    /\ \A r \in Req :
          (req[r].pc = "failed" /\ r \in counted)
             => req[r].err = BodySyntaxError /\ req[r].resp2.body.t = "junk"

C4_Witness ==
    \E r \in Req :
        /\ req[r].pc = "failed"
        /\ req[r].err.class = "APIError"
        /\ req[r].resp2.status = 500
        /\ sessionCalls = 0
        /\ sessionTotalUsd = 0

\* C5: when all the requests issued concurrently on one LLMClient or
\* SolanaLLMClient instance have completed a paid cycle, whatever the
\* interleaving of their steps, calls equals their number and the total
\* the sum of their amounts.
C5_NoLostUpdate ==
    (kind \in {"llm", "solana"}
        /\ \A r \in Req : req[r].pc = "success" /\ Len(req[r].sent) = 2)
    => /\ sessionCalls = MaxReq
       /\ sessionTotalUsd = SumAmounts(Req)

C5_Witness ==
    /\ kind = "llm"
    /\ \A r \in Req : req[r].pc = "success" /\ Len(req[r].sent) = 2
    /\ \E r \in Req : AmountOf(req[r]) # AmountOf(req[1])
    /\ sessionCalls = MaxReq

\* The payment data of the payloads request q has built.
PayloadsOf(q) == {DecodePayload(q.built[i]) : i \in DOMAIN q.built}

\* C7: every EVM payload (LLMClient, ImageClient) carries a signature made
\* over the domain {name "USD Coin", version "2", chainId 8453,
\* verifyingContract the Base USDC contract}, whatever extra.name,
\* extra.version, asset and network the challenge declared; so challenges
\* that differ only in those fields are signed over the identical domain.
C7_DomainFixed ==
    kind \in {"llm", "image"} =>
        \A r \in Req : \A p \in PayloadsOf(req[r]) :
            p.o.payload.o.signature.domain =
                [name |-> "USD Coin", version |-> "2", chainId |-> 8453,
                 verifyingContract |-> "0x833589fCD6eDb6E08f4c7C32D4f71b54bdA02913"]

C7_Witness ==
    \E r \in Req :
        /\ kind = "llm"
        /\ req[r].built # <<>>
        /\ req[r].details.extra = JObj([name |-> JStr("Evil Coin"), version |-> JStr("9")])
        /\ req[r].details.network = JStr("eip155:1")
        /\ req[r].details.asset = JStr("0xEvilToken")
        /\ DecodePayload(req[r].built[1]).o.payload.o.signature.domain.name = "USD Coin"

\* The URL a payload names as its resource.
ResourceUrlOf(p) == ToStr(p.o.resource.o.url)

\* C8 as claimed: the resource URL of every payload has the origin
\* (protocol, hostname and port) of the configured apiUrl.
C8_Original ==
    \A r \in Req : \A p \in PayloadsOf(req[r]) :
        /\ UrlParses(ResourceUrlOf(p))
        /\ Origin(ResourceUrlOf(p)) = Origin(ApiUrl(kind))

\* C8, amended: the resource URL of every payload parses as a URL and has the
\* protocol and the hostname of the configured apiUrl, whatever resource.url
\* the challenge declared (the port is not compared).
C8_ResourceHostBound ==
    \A r \in Req : \A p \in PayloadsOf(req[r]) :
        /\ UrlParses(ResourceUrlOf(p))
        /\ UrlOf(ResourceUrlOf(p)).protocol = UrlOf(ApiUrl(kind)).protocol
        /\ UrlOf(ResourceUrlOf(p)).hostname = UrlOf(ApiUrl(kind)).hostname

C8_Witness ==
    \E r \in Req :
        /\ req[r].built # <<>>
        /\ OptGet(req[r].details.resource, "url") = JStr("https://malicious.com/steal")
        /\ ResourceUrlOf(DecodePayload(req[r].built[1])) =
              ApiUrl(kind) \o "/v1/chat/completions"

\* The fields whose truthiness makes a body the challenge.
MarkerFields(k) ==
    IF k = "solana" THEN {"accepts", "x402Version"} ELSE {"x402", "accepts"}

\* The body of a header-less 402 that the orchestrator takes for the
\* challenge: JSON, an object with a truthy marker field, and text btoa can
\* encode.
UsableBody(k, body) ==
    /\ body.t = "json"
    /\ body.v.t = "obj"
    /\ \E f \in MarkerFields(k) \cap DOMAIN body.v.o : Truthy(body.v.o[f])
    /\ ~HasWide(body.v)

\* The handler of a 402 is past locating the challenge.
Located(q) == q.resp.status = 402 /\ q.pc # "body402"

\* C9 as claimed: a 402 of which neither the header nor the body decodes to
\* a challenge ends the cycle with NoChallengeFound, nothing built and
\* nothing more sent.
C9_Original ==
    \A r \in Req :
        LET q == req[r] IN
        (/\ Located(q)
         /\ ~parsePaymentRequired(q.resp.header).ok
         /\ ~(q.resp.body.t = "json" /\ parsePaymentRequired(Base64Of(q.resp.body)).ok))
        => /\ q.pc = "failed"
           /\ q.err = NoChallengeFound
           /\ q.built = <<>>
           /\ Len(q.sent) = 1

\* C9, amended: a payment-required header that is a non-empty string is the
\* challenge and the body is not consulted; without it the body is the
\* challenge when it is usable (JSON, a truthy marker field, encodable).
\* The cycle fails with NoChallengeFound exactly when there is no header
\* and no usable body; a header or a usable body that does not decode fails
\* it with the codec's error.  Either failure builds no payload and sends
\* no second request.
C9_ChallengeLocation ==
    \A r \in Req :
        LET q == req[r]
            h == q.resp.header
            b == q.resp.body
            source == IF HeaderFalsy(h) THEN Base64Of(b) ELSE h
        IN
        Located(q) =>
            /\ (q.err = NoChallengeFound) <=> (HeaderFalsy(h) /\ ~UsableBody(kind, b))
            /\ q.err = NoChallengeFound
                  => q.pc = "failed" /\ q.built = <<>> /\ Len(q.sent) = 1
            /\ (q.err # NoChallengeFound /\ ~parsePaymentRequired(source).ok)
                  => /\ q.pc = "failed"
                     /\ q.err \in {ParseFormatError, StructureError}
                     /\ q.built = <<>>
                     /\ Len(q.sent) = 1
            /\ (q.err # NoChallengeFound /\ q.pc # "failed")
                  => q.details.resource = Get(source.of.v, "resource")

C9_Witness ==
    \E r \in Req :
        /\ req[r].pc = "failed"
        /\ req[r].err = NoChallengeFound
        /\ req[r].resp.header = JNull
        /\ req[r].resp.body = JsonText(JObj([x402Version |-> JNum(2)]))
        /\ kind = "llm"

\* The pricing fetches in flight.
InFlight == {p \in DOMAIN promises : promises[p].state = "pending"}

\* A caller that asks while a fetch is in flight is handed that fetch's
\* promise, and no fetch is issued.
JoinsInFlight ==
    \A c \in Callers :
        (callers[c].pc = "idle" /\ callers'[c].pc # "idle" /\ InFlight # {})
        => /\ promises' = promises
           /\ callers'[c].pc = "joined"
           /\ callers'[c].awaits \in InFlight

\* C6: at every moment at most one pricing fetch is in flight on a client
\* instance, and a caller of getModelPricing that arrives while one is in
\* flight awaits that same fetch and issues none.
C6_SingleFlight ==
    /\ [](Cardinality(InFlight) <= 1)
    /\ [][JoinsInFlight]_vars

C6_Witness ==
    /\ Len(promises) = 2
    /\ promises[1].state = "rejected"
    /\ promises[2].state = "pending"
    /\ \E c, d \in Callers :
          /\ c # d
          /\ callers[c].pc = "owner" /\ callers[c].awaits = 2
          /\ callers[d].pc = "joined" /\ callers[d].awaits = 2

\* The header value is the base64 of the JSON text of an object whose
\* accepts is an array.
DecodesToArrayAccepts(h) ==
    /\ h.t = "b64"
    /\ h.of.t = "json"
    /\ h.of.v.t = "obj"
    /\ "accepts" \in DOMAIN h.of.v.o
    /\ h.of.v.o.accepts.t = "arr"

\* C10 as claimed: parsePaymentRequired returns exactly when the header
\* value decodes to JSON whose accepts is a non-empty array.
C10_Original ==
    probe.fn = "parsePaymentRequired" =>
        (probe.out.ok <=>
            (DecodesToArrayAccepts(probe.input)
                /\ Len(probe.input.of.v.o.accepts.a) > 0))

\* C10, amended: parsePaymentRequired throws when base64 decoding fails,
\* when the decoded text is no JSON, and when accepts is missing, falsy or
\* no array; it returns the parsed value in every other case, an empty
\* accepts included, and the empty list is rejected by extractPaymentDetails
\* ("No payment options in payment required response").
C10_ParseAcceptsArray ==
    /\ probe.fn = "parsePaymentRequired" =>
          /\ probe.out.ok <=> DecodesToArrayAccepts(probe.input)
          /\ probe.out.ok => probe.out.val = probe.input.of.v
          /\ ~probe.out.ok =>
                /\ probe.out.err.class = "Error"
                /\ probe.out.err.message \in
                      {"Failed to parse payment required header: invalid format",
                       "Invalid payment required structure: missing or invalid 'accepts' field"}
    /\ (probe.fn = "extractPaymentDetails" /\ probe.input.o.accepts.a = <<>>)
          => probe.out = Throw(NoPaymentOptionsError)

C10_Witness ==
    /\ probe.fn = "parsePaymentRequired"
    /\ probe.input = Base64Of(JsonText(ChallengeOf(<<>>)))
    /\ probe.out = Ok(ChallengeOf(<<>>))

\* The header value the handler of a 402 goes on with: the header, or the
\* re-encoded body when there is no header.
ChallengeSource(q) ==
    IF HeaderFalsy(q.resp.header) THEN Base64Of(q.resp.body) ELSE q.resp.header

\* The request received a 402 whose challenge decodes to a list of
\* requirements, every one an object.
HasChallenge(q) ==
    /\ Located(q)
    /\ HeaderFalsy(q.resp.header) => UsableBody(kind, q.resp.body)
    /\ DecodesToArrayAccepts(ChallengeSource(q))
    /\ \A i \in DOMAIN ChallengeSource(q).of.v.o.accepts.a :
          ChallengeSource(q).of.v.o.accepts.a[i].t = "obj"

AcceptsOf(q) == ChallengeSource(q).of.v.o.accepts.a

\* The first entry whose network is n, else the first entry.
FirstOnNetwork(accepts, n) ==
    LET hits == {i \in DOMAIN accepts :
                    "network" \in DOMAIN accepts[i].o /\ accepts[i].o.network = JStr(n)}
    IN IF hits = {} THEN accepts[1]
       ELSE accepts[CHOOSE i \in hits : \A j \in hits : i <= j]

\* The requirement has an amount under one of its two names.
HasAmount(entry) ==
    \E f \in {"amount", "maxAmountRequired"} \cap DOMAIN entry.o : Truthy(entry.o[f])

\* The requirement SolanaLLMClient selects from the challenge of q.
SolanaSelected(q) == FirstOnNetwork(AcceptsOf(q), SOLANA_NETWORK)

EvmNetworks == {"eip155:8453", "eip155:1"}
SolanaNetworks ==
    {"solana:5eykt4UsFv8P8NJdTREpY1vzqKqZKvdp", "solana:EtWTRABZaYq6iMfeYKouRu166VU2xqa1"}

\* C11: in SolanaLLMClient, when the requirement selected from the challenge
\* (it has an amount) names a network that does not start with "solana:",
\* the cycle has failed with the wrong-rail PaymentError with no payload
\* built and one request sent; the builder (key decoding, RPC, signing) runs
\* only for a requirement of a "solana:" network.
C11_WrongRailRefused ==
    kind = "solana" =>
        \A r \in Req :
            LET q == req[r] IN
            /\ (/\ HasChallenge(q)
                /\ AcceptsOf(q) # <<>>
                /\ HasAmount(SolanaSelected(q))
                /\ "network" \in DOMAIN SolanaSelected(q).o
                /\ SolanaSelected(q).o.network.t = "str"
                /\ SolanaSelected(q).o.network.s \in EvmNetworks)
               => /\ q.pc = "failed"
                  /\ q.err = [class |-> "PaymentError",
                              message |-> "Expected Solana payment network, got: "
                                            \o SolanaSelected(q).o.network.s
                                            \o ". Use LLMClient for Base payments."]
                  /\ q.built = <<>>
                  /\ Len(q.sent) = 1
            /\ (q.pc \in {"building", "fetch2", "body2", "errbody2"} \/ q.built # <<>>)
               => q.details.network.s \in SolanaNetworks

C11_Witness ==
    \E r \in Req :
        /\ kind = "solana"
        /\ HasChallenge(req[r])
        /\ AcceptsOf(req[r]) # <<>>
        /\ SolanaSelected(req[r]) = AcceptsOf(req[r])[1]
        /\ Get(SolanaSelected(req[r]), "network") = JStr("eip155:8453")
        /\ req[r].pc = "failed"
        /\ req[r].err = WrongRailError(JStr("eip155:8453"))
        /\ req[r].built = <<>>

\* C12: in SolanaLLMClient, when the requirement selected from the challenge
\* (it has an amount and a "solana:" network) has no feePayer in its extra,
\* the cycle has failed with MissingFeePayer with no payload built and one
\* request sent; and the fee payer of every transaction built is the one
\* the selected requirement names.
C12_MissingFeePayerRefused ==
    kind = "solana" =>
        \A r \in Req :
            LET q == req[r] IN
            /\ (/\ HasChallenge(q)
                /\ AcceptsOf(q) # <<>>
                /\ HasAmount(SolanaSelected(q))
                /\ "network" \in DOMAIN SolanaSelected(q).o
                /\ SolanaSelected(q).o.network.t = "str"
                /\ SolanaSelected(q).o.network.s \in SolanaNetworks
                /\ ~Truthy(OptGet(Get(SolanaSelected(q), "extra"), "feePayer")))
               => /\ q.pc = "failed"
                  /\ q.err = [class |-> "PaymentError",
                              message |-> "Missing feePayer in 402 extra field"]
                  /\ q.built = <<>>
                  /\ Len(q.sent) = 1
            /\ \A p \in PayloadsOf(q) :
                  p.o.payload.o.transaction.payerKey = SolanaSelected(q).o.extra.o.feePayer

C12_Witness ==
    \E r \in Req :
        /\ kind = "solana"
        /\ req[r].resp = InHeader(ChallengeOf(<<Without(SolanaOption("2500"), "extra")>>))
        /\ req[r].pc = "failed"
        /\ req[r].err = MissingFeePayer

\* The requirement the EVM orchestrators select: no preferred network is
\* passed, so it is the first entry.
EvmSelected(q) == AcceptsOf(q)[1]

\* The selected requirement of an EVM cycle names a network other than Base.
EvmOffRail(q) ==
    /\ HasChallenge(q)
    /\ AcceptsOf(q) # <<>>
    /\ HasAmount(EvmSelected(q))
    /\ "network" \in DOMAIN EvmSelected(q).o
    /\ EvmSelected(q).o.network.t = "str"
    /\ EvmSelected(q).o.network.s # "eip155:8453"

\* C13: in LLMClient and ImageClient, when the requirement selected from the
\* challenge names a network other than the EVM network of this rail, the
\* cycle has failed with a wrong-rail error, no payload (no EIP-712
\* signature) was built and only the first request was sent.
C13_EvmWrongRailRefused ==
    kind \in {"llm", "image"} =>
        \A r \in Req :
            EvmOffRail(req[r])
               => /\ req[r].pc = "failed"
                  /\ req[r].built = <<>>
                  /\ Len(req[r].sent) = 1

\* An EVM client has signed and sent a payment for a requirement of a
\* "solana:" network.
C13_Witness ==
    \E r \in Req :
        /\ kind \in {"llm", "image"}
        /\ EvmOffRail(req[r])
        /\ EvmSelected(req[r]).o.network.s \in SolanaNetworks
        /\ Len(req[r].sent) = 2
        /\ \E p \in PayloadsOf(req[r]) :
              /\ p.o.payload.o.signature.domain = USDC_DOMAIN
              /\ p.o.accepted.o.network = EvmSelected(req[r]).o.network

\* The nonce a decoded EVM payload carries.
NonceOf(p) == p.o.payload.o.authorization.o.nonce

\* The requests of cycle q that carry a payment header.
PaidSends(q) == {i \in DOMAIN q.sent : q.sent[i].sig # Undefined}

TimeoutOf(entry) ==
    IF "maxTimeoutSeconds" \in DOMAIN entry.o THEN entry.o.maxTimeoutSeconds
    ELSE JNum(300)

\* The message the signature of a decoded EVM payload was made over.
SignedMessage(p) == p.o.payload.o.signature.message

\* C15: for every EVM payload built at time now from a challenge, whatever
\* maxTimeoutSeconds the selected requirement carries, validAfter is
\* now - 600, validBefore is now + maxTimeoutSeconds (300 when absent), and
\* validAfter < now < validBefore.
C15_ValidityWindow ==
    kind \in {"llm", "image"} =>
        \A r \in Req : \A p \in PayloadsOf(req[r]) :
            \E now \in Times :
                LET timeout == TimeoutOf(EvmSelected(req[r])) IN
                /\ SignedMessage(p).validAfter = JNum(now - 600)
                /\ timeout.t = "num"
                /\ SignedMessage(p).validBefore = JNum(now + timeout.n)
                /\ SignedMessage(p).validAfter.n < now
                /\ now < SignedMessage(p).validBefore.n

\* An EVM payload was signed and sent whose validBefore lies before the
\* signing time.
C15_Witness ==
    \E r \in Req : \E p \in PayloadsOf(req[r]) : \E now \in Times :
        /\ kind \in {"llm", "image"}
        /\ TimeoutOf(EvmSelected(req[r])) = JNum(-1)
        /\ SignedMessage(p).validBefore = JNum(now - 1)
        /\ p.o.payload.o.authorization.o.validBefore = JStr(ToString(now - 1))
        /\ Len(req[r].sent) = 2

\* The fields the claim lists for the echo.
EchoedFields == {"scheme", "network", "amount", "asset", "payTo", "maxTimeoutSeconds"}

\* C16 as stated: in every EVM payload each of scheme, network, amount,
\* asset, payTo and maxTimeoutSeconds of accepted equals that field of the
\* selected requirement, authorization.to is payTo and authorization.value
\* is amount.
C16_Original ==
    kind \in {"llm", "image"} =>
        \A r \in Req : \A p \in PayloadsOf(req[r]) :
            /\ \A f \in EchoedFields :
                  Get(p.o.accepted, f) = Get(EvmSelected(req[r]), f)
            /\ p.o.payload.o.authorization.o.to = Get(EvmSelected(req[r]), "payTo")
            /\ p.o.payload.o.authorization.o.value = Get(EvmSelected(req[r]), "amount")

\* C16: in every EVM payload, accepted.payTo is the payTo of the selected
\* requirement, accepted.amount its amount (its maxAmountRequired when it
\* has no amount), accepted.network its network ("eip155:8453" when it has
\* none) and accepted.maxTimeoutSeconds its maxTimeoutSeconds (300 when it
\* has none); accepted.scheme is "exact" and accepted.asset is the USDC
\* contract on Base whatever the requirement says; authorization.to is
\* accepted.payTo and authorization.value is accepted.amount.
C16_AcceptedFields ==
    kind \in {"llm", "image"} =>
        \A r \in Req : \A p \in PayloadsOf(req[r]) :
            LET sel == EvmSelected(req[r])
                accepted == p.o.accepted.o
            IN
            /\ accepted.payTo = Get(sel, "payTo")
            /\ accepted.amount = JsOr(Get(sel, "amount"), Get(sel, "maxAmountRequired"))
            /\ accepted.network = JsOr(Get(sel, "network"), JStr("eip155:8453"))
            /\ accepted.maxTimeoutSeconds = JsOr(Get(sel, "maxTimeoutSeconds"), JNum(300))
            /\ accepted.scheme = JStr("exact")
            /\ accepted.asset = JStr("0x833589fCD6eDb6E08f4c7C32D4f71b54bdA02913")
            /\ p.o.payload.o.authorization.o.to = accepted.payTo
            /\ p.o.payload.o.authorization.o.value = accepted.amount

\* A payload was built for a requirement that names another asset and
\* another network than USDC on Base.
C16_Witness ==
    \E r \in Req : \E p \in PayloadsOf(req[r]) :
        /\ kind \in {"llm", "image"}
        /\ Get(EvmSelected(req[r]), "asset") = JStr("0xEvilToken")
        /\ p.o.accepted.o.network = JStr("eip155:1")
        /\ p.o.accepted.o.asset # JStr("0xEvilToken")
        /\ p.o.payload.o.authorization.o.value = JStr("2500")

\* extractPaymentDetails was applied to a challenge whose accepts is a list
\* of requirement objects.
Extracted ==
    /\ probe.fn = "extractPaymentDetails"
    /\ \A i \in DOMAIN probe.input.o.accepts.a : probe.input.o.accepts.a[i].t = "obj"

\* The entry the claim names for the probe: the first entry of the
\* preferred network when one is given and present, the first entry
\* otherwise.
ProbeSelected ==
    IF probe.preferredNetwork = Undefined THEN probe.input.o.accepts.a[1]
    ELSE FirstOnNetwork(probe.input.o.accepts.a, probe.preferredNetwork.s)

\* The details are those of the entry.
BuiltFrom(details, entry) ==
    /\ details.recipient = Get(entry, "payTo")
    /\ details.network = Get(entry, "network")
    /\ details.asset = Get(entry, "asset")
    /\ details.scheme = Get(entry, "scheme")
    /\ details.extra = Get(entry, "extra")
    /\ details.amount \in {Get(entry, "amount"), Get(entry, "maxAmountRequired")}

\* C17: extractPaymentDetails fails with "No payment options in payment
\* required response" when accepts is empty; otherwise its result is built
\* from the first entry whose network is the preferred network when one is
\* given and some entry has it, and from accepts[0] when none is given or
\* none matches (it fails with "No amount found" when that entry has no
\* amount, and never falls through to another entry).
C17_SelectRequirement ==
    Extracted =>
        IF probe.input.o.accepts.a = <<>>
        THEN probe.out = [ok |-> FALSE,
                          err |-> [class |-> "Error",
                                   message |-> "No payment options in payment required response"]]
        ELSE IF HasAmount(ProbeSelected)
        THEN probe.out.ok /\ BuiltFrom(probe.out.val, ProbeSelected)
        ELSE ~probe.out.ok /\ probe.out.err.message = "No amount found in payment requirements"

\* The preferred network is found at the second and third place of three:
\* the second entry is the one taken.
C17_Witness ==
    /\ Extracted
    /\ probe.preferredNetwork = JStr("solana:5eykt4UsFv8P8NJdTREpY1vzqKqZKvdp")
    /\ Len(probe.input.o.accepts.a) = 3
    /\ Get(probe.input.o.accepts.a[1], "network") = JStr("eip155:8453")
    /\ Get(probe.input.o.accepts.a[3], "network") = probe.preferredNetwork
    /\ probe.input.o.accepts.a[2] # probe.input.o.accepts.a[3]
    /\ probe.out.ok
    /\ BuiltFrom(probe.out.val, probe.input.o.accepts.a[2])
    /\ ~BuiltFrom(probe.out.val, probe.input.o.accepts.a[3])

\* C18: the amount of the result of extractPaymentDetails is the amount of
\* the selected requirement when it has one, its maxAmountRequired when it
\* has no amount, and the operation fails with "No amount found in payment
\* requirements" exactly when the selected requirement has neither (amounts
\* being non-empty strings).
C18_AmountNormalized ==
    (Extracted /\ probe.input.o.accepts.a # <<>>) =>
        /\ "amount" \in DOMAIN ProbeSelected.o
              => probe.out.ok /\ probe.out.val.amount = ProbeSelected.o.amount
        /\ ("amount" \notin DOMAIN ProbeSelected.o /\ "maxAmountRequired" \in DOMAIN ProbeSelected.o)
              => probe.out.ok /\ probe.out.val.amount = ProbeSelected.o.maxAmountRequired
        /\ (~probe.out.ok /\ probe.out.err = [class |-> "Error",
                                              message |-> "No amount found in payment requirements"])
              <=> {"amount", "maxAmountRequired"} \cap DOMAIN ProbeSelected.o = {}
        /\ probe.out.ok \/ {"amount", "maxAmountRequired"} \cap DOMAIN ProbeSelected.o = {}

\* The selected requirement carries both names with different values: the
\* result has the amount.
C18_Witness ==
    /\ Extracted
    /\ probe.input.o.accepts.a # <<>>
    /\ {"amount", "maxAmountRequired"} \subseteq DOMAIN ProbeSelected.o
    /\ ProbeSelected.o.amount # ProbeSelected.o.maxAmountRequired
    /\ probe.out.ok
    /\ probe.out.val.amount = ProbeSelected.o.amount

\* The header value is base64 of JSON text.
DecodesToJson(h) == h.t = "b64" /\ h.of.t = "json"

\* C19: every failure of parsePaymentRequired is one of two errors: "Failed
\* to parse payment required header: invalid format" exactly when base64
\* decoding or JSON parsing fails, and "Invalid payment required structure:
\* missing or invalid 'accepts' field" for every input that decodes to JSON
\* without an array accepts, JSON values that are no objects (null)
\* included.
C19_TwoErrorKinds ==
    probe.fn = "parsePaymentRequired" =>
        /\ ~probe.out.ok =>
              probe.out.err.message \in
                  {"Failed to parse payment required header: invalid format",
                   "Invalid payment required structure: missing or invalid 'accepts' field"}
        /\ (~probe.out.ok /\ probe.out.err.message =
                                "Failed to parse payment required header: invalid format")
              <=> ~DecodesToJson(probe.input)
        /\ (DecodesToJson(probe.input) /\ ~DecodesToArrayAccepts(probe.input))
              => (~probe.out.ok /\ probe.out.err.message =
                    "Invalid payment required structure: missing or invalid 'accepts' field")

\* The header is base64 of the JSON text null: the error is the parse
\* error, although the text is valid JSON.
C19_Witness ==
    /\ probe.fn = "parsePaymentRequired"
    /\ probe.input = [t |-> "b64", of |-> [t |-> "json", v |-> [t |-> "null"]]]
    /\ ~probe.out.ok
    /\ probe.out.err.message = "Failed to parse payment required header: invalid format"

DefaultResource(baseUrl) == baseUrl \o "/v1/chat/completions"

\* C21: validateResourceUrl(url, baseUrl) always returns (no throw is an
\* outcome), and what it returns is url itself exactly when url and baseUrl
\* parse with the same hostname and the same protocol, and baseUrl +
\* "/v1/chat/completions" in every other case.
C21_ResourceUrl ==
    probe.fn = "validateResourceUrl" =>
        LET same == /\ probe.url \in DOMAIN UrlTable
                    /\ probe.baseUrl \in DOMAIN UrlTable
                    /\ UrlTable[probe.url].hostname = UrlTable[probe.baseUrl].hostname
                    /\ UrlTable[probe.url].protocol = UrlTable[probe.baseUrl].protocol
        IN /\ same => probe.out = probe.url
           /\ ~same => probe.out = DefaultResource(probe.baseUrl)
           /\ probe.out \in {probe.url, DefaultResource(probe.baseUrl)}

\* A URL of a sub-domain of the API host is replaced by the default.
C21_Witness ==
    /\ probe.fn = "validateResourceUrl"
    /\ probe.url = "https://evil.blockrun.ai/v1/chat"
    /\ probe.baseUrl = "https://blockrun.ai/api"
    /\ probe.out = "https://blockrun.ai/api/v1/chat/completions"

\* What the claim lets the result of sanitizeErrorResponse depend on.
AllowListView(body) ==
    [object |-> body.t \in {"obj", "arr"},
     error |-> IF body.t = "obj" /\ "error" \in DOMAIN body.o /\ body.o.error.t = "str"
               THEN body.o.error.s ELSE "",
     hasError |-> body.t = "obj" /\ "error" \in DOMAIN body.o /\ body.o.error.t = "str",
     code |-> IF body.t = "obj" /\ "code" \in DOMAIN body.o /\ body.o.code.t = "str"
              THEN body.o.code.s ELSE "",
     hasCode |-> body.t = "obj" /\ "code" \in DOMAIN body.o /\ body.o.code.t = "str"]

OtherFailure(resp) == resp.status # 0 /\ resp.status # 402 /\ ~(resp.status \in 200..299)

\* What an APIError may carry for the body text of an answer: message and
\* code of the allow-list, "Request failed" standing for a body that is no
\* JSON.
SanitizedBody(bodyText) ==
    LET body == IF bodyText.t = "json" THEN bodyText.v
                ELSE [t |-> "obj", o |-> [error |-> [t |-> "str", s |-> "Request failed"]]]
        view == AllowListView(body)
    IN IF ~view.object
       THEN [t |-> "obj", o |-> [message |-> [t |-> "str", s |-> "API request failed"]]]
       ELSE [t |-> "obj",
             o |-> [message |-> [t |-> "str",
                                 s |-> IF view.hasError THEN view.error
                                       ELSE "API request failed"],
                    code |-> IF view.hasCode THEN [t |-> "str", s |-> view.code]
                             ELSE [t |-> "undefined"]]]

C24_TimeoutBoundsCycle ==
    \A r \in Req : (req[r].pc # "idle") ~> (req[r].pc \in {"success", "failed"})

\* The two fetches of a cycle are bounded by the timeout.
C24_FetchBounded ==
    \A r \in Req : (req[r].pc \in {"fetch1", "fetch2"}) ~> (req[r].pc \notin {"fetch1", "fetch2"})

\* The body of the paid answer is being read and no timer can fire.
C24_Witness ==
    \E r \in Req :
        /\ req[r].pc = "body2"
        /\ Len(req[r].sent) = 2
        /\ ~ENABLED TimeoutFires(r)

\* The fetches of the model list that have succeeded.
Fulfilled == {p \in DOMAIN promises : promises[p].state = "fulfilled"}

\* Once a fetch has succeeded: no further fetch is started, and a cache that
\* is set keeps its value.
CacheKept ==
    /\ Fulfilled # {} => Len(promises') = Len(promises)
    /\ modelPricingCache # JNull => modelPricingCache' = modelPricingCache

\* C25: on an LLMClient instance at most one fetch of the model list ever
\* succeeds; the cache, once set, holds the table of that fetch and is never
\* cleared or replaced; every call that returns, returns that table; and
\* after the success no call starts another fetch.
C25_CachedForLife ==
    /\ [](/\ Cardinality(Fulfilled) <= 1
          /\ \A p \in Fulfilled :
                /\ p = Len(promises)
                /\ modelPricingCache \in {JNull, promises[p].outcome.val}
                /\ \A c \in Callers :
                      callers[c].pc = "done" => callers[c].result = promises[p].outcome.val
          /\ modelPricingCache # JNull => Fulfilled # {}
          /\ \A c \in Callers : callers[c].pc = "done" => Fulfilled # {})
    /\ [][CacheKept]_vars

\* A first fetch failed, a second succeeded, and two later calls returned
\* the cached table without a third fetch.
C25_Witness ==
    /\ Len(promises) = 2
    /\ promises[1].state = "rejected"
    /\ promises[2].state = "fulfilled"
    /\ modelPricingCache = promises[2].outcome.val
    /\ Cardinality({c \in Callers : callers[c].pc = "done"
                                      /\ callers[c].result = modelPricingCache}) >= 2

\* The private keys the clients are constructed with.
PrivateKeys ==
    {"0xac0974bec39a17e36ba4a6b4d238ff944bacb478cbed5efcae784d7bf4f2ff80", "bs58-secret-key"}

RECURSIVE Leaves(_)
\* The strings a value is made of: of a JSON value, of a signature, of a
\* transaction, of text and of its base64.
Leaves(v) ==
    CASE v.t \in {"str", "raw", "junk"} -> {v.s}
      [] v.t = "arr" -> UNION {Leaves(v.a[i]) : i \in DOMAIN v.a}
      [] v.t = "obj" -> UNION {Leaves(v.o[k]) : k \in DOMAIN v.o}
      [] v.t = "json" -> Leaves(v.v)
      [] v.t = "b64" -> Leaves(v.of)
      [] v.t = "sig" ->
             {v.signer, v.message.from, v.message.nonce, v.domain.name,
              v.domain.version, v.domain.verifyingContract}
             \cup Leaves(v.message.to)
      [] v.t = "tx" ->
             {v.mint, v.owner, v.recentBlockhash} \cup v.signedBy
             \cup Leaves(v.payerKey) \cup Leaves(v.destinationOwner)
      [] OTHER -> {}

\* The strings an HTTP request is made of.
RequestLeaves(request) ==
    {request.url, request.method} \cup Leaves(request.body) \cup Leaves(request.sig)

\* C26: no HTTP request a client sends (URL, method, body, PAYMENT-SIGNATURE
\* value) holds the private key of the client, on any rail; the paid
\* request holds the signature (or the signed transaction) and the
\* authorization only.
C26_KeyStaysLocal ==
    \A r \in Req : \A i \in DOMAIN req[r].sent :
        RequestLeaves(req[r].sent[i]) \cap PrivateKeys = {}

\* A paid request was sent whose signature recovers to the wallet address.
C26_Witness ==
    \E r \in Req :
        /\ kind = "llm"
        /\ Len(req[r].sent) = 2
        /\ req[r].sent[2].sig.of.v.o.payload.o.signature.signer
              = "0xf39Fd6e51aad88F6F4ce6aB8827279cffFb92266"
        /\ "0xf39Fd6e51aad88F6F4ce6aB8827279cffFb92266" \in RequestLeaves(req[r].sent[2])

\* The URL uses https, or http with hostname localhost or 127.0.0.1.
SecureUrl(u) ==
    /\ u \in DOMAIN UrlTable
    /\ \/ UrlTable[u].protocol = "https:"
       \/ /\ UrlTable[u].protocol = "http:"
          /\ UrlTable[u].hostname \in {"localhost", "127.0.0.1"}

Phase(q) ==
    CASE q.pc = "idle" -> "Idle"
      [] q.pc \in {"fetch1", "body1", "errbody1"} -> "Sent"
      [] q.pc \in {"body402", "building"} -> "ChallengeReceived"
      [] q.pc \in {"fetch2", "body2", "errbody2"} -> "Paid"
      [] q.pc = "success" -> "Success"
      [] q.pc = "failed" /\ q.err \in {PaymentRejected, PaymentRejectedSolana} -> "Rejected"
      [] OTHER -> "Failed"

\* The arrows of the state machine.
Arrows ==
    {<<"Idle", "Sent">>,
     <<"Sent", "Success">>, <<"Sent", "ChallengeReceived">>, <<"Sent", "Failed">>,
     <<"ChallengeReceived", "Paid">>, <<"ChallengeReceived", "Failed">>,
     <<"Paid", "Success">>, <<"Paid", "Rejected">>, <<"Paid", "Failed">>}

\* What holds of a cycle in each state.
PhaseOrder(q) ==
    /\ Len(q.sent) >= 1 => q.sent[1].sig = Undefined
    /\ Phase(q) = "Idle" <=> q.sent = <<>>
    /\ Phase(q) = "Sent" => Len(q.sent) = 1 /\ q.built = <<>>
    /\ Phase(q) = "ChallengeReceived" => q.resp.status = 402 /\ Len(q.sent) = 1 /\ q.built = <<>>
    /\ q.built # <<>> => q.resp.status = 402 /\ Len(q.built) = 1 /\ q.details # Undefined
    /\ Phase(q) \in {"Paid", "Rejected"} => Len(q.sent) = 2
    /\ Len(q.sent) >= 2 =>
          /\ Len(q.sent) = 2
          /\ q.resp.status = 402
          /\ q.built = <<q.sent[2].sig>>
          /\ DecodePayload(q.built[1]).o.accepted.o.payTo = q.details.recipient
          /\ DecodePayload(q.built[1]).o.accepted.o.amount = q.details.amount
    /\ Phase(q) = "Rejected" => q.resp2.status = 402
    /\ Phase(q) = "Success" => IsOk(IF Len(q.sent) = 2 THEN q.resp2.status ELSE q.resp.status)

\* A step moves a cycle along an arrow or leaves it in its state, and
\* changes nothing of a cycle that is in a terminal state.
PhaseStep ==
    \A r \in Req :
        /\ Phase(req[r]) # Phase(req'[r]) => <<Phase(req[r]), Phase(req'[r])>> \in Arrows
        /\ Phase(req[r]) \in {"Success", "Rejected", "Failed"} => req'[r] = req[r]
        /\ Len(req'[r].sent) > Len(req[r].sent) =>
              <<Phase(req[r]), Phase(req'[r])>> \in
                  {<<"Idle", "Sent">>, <<"ChallengeReceived", "Paid">>}
        /\ req'[r].built # req[r].built =>
              Phase(req[r]) = "ChallengeReceived" /\ Phase(req'[r]) = "Paid"

\* C28: every logical request moves through Idle, Sent, ChallengeReceived,
\* Paid and the terminal states Success, Rejected and Failed along the
\* arrows of the state machine only: its first request carries no
\* PAYMENT-SIGNATURE, a payload is built only in ChallengeReceived (after the
\* unauthenticated send was answered 402), the paid request is sent only
\* with the payload built from the requirement extracted from that 402, and
\* nothing of a cycle changes once it is in a terminal state.
C28_StateMachine ==
    /\ [](\A r \in Req : PhaseOrder(req[r]))
    /\ [][PhaseStep]_vars

\* One cycle was rejected after its paid request while another succeeded
\* without payment.
C28_Witness ==
    \E r1, r2 \in Req :
        /\ Phase(req[r1]) = "Rejected"
        /\ Len(req[r1].sent) = 2
        /\ Phase(req[r2]) = "Success"
        /\ Len(req[r2].sent) = 1


\* C29: the second request of a cycle has the URL, the method and the body
\* text of its first request (the body object is the one the caller passed
\* and the caller leaves it alone during the call), the first carries no
\* PAYMENT-SIGNATURE, and the PAYMENT-SIGNATURE of the second is the base64
\* text of the one payload the cycle built, made for the requirement
\* extracted from the 402 that answered the first request.
C29_SameRequestPaid ==
    \A r \in Req :
        LET q == req[r] IN
        Len(q.sent) >= 2 =>
            /\ q.sent[2].url = q.sent[1].url
            /\ q.sent[2].method = q.sent[1].method
            /\ q.sent[2].body = q.sent[1].body
            /\ q.sent[1].body = JSON_stringify(q.body)
            /\ q.sent[1].sig = Undefined
            /\ q.sent[2].sig = q.built[1]
            /\ q.sent[2].sig.t = "b64"
            /\ q.resp.status = 402
            /\ DecodePayload(q.sent[2].sig).o.accepted.o.payTo = q.details.recipient
            /\ DecodePayload(q.sent[2].sig).o.accepted.o.amount = q.details.amount
            /\ HasChallenge(q) => \E i \in DOMAIN AcceptsOf(q) :
                                     BuiltFrom(q.details, AcceptsOf(q)[i])

\* A call with an option set was paid: both requests carry the option.
C29_Witness ==
    \E r \in Req :
        /\ Len(req[r].sent) = 2
        /\ req[r].body # RequestBody(kind)
        /\ req[r].sent[2].body = JSON_stringify(req[r].body)
        /\ req[r].sent[2].body # JSON_stringify(RequestBody(kind))
        /\ req[r].sent[2].sig # Undefined


\* The errors the payload builders throw.
BuilderErrors ==
    {SigningError, BigIntError, KeyError, RpcError, InvalidCharacterError,
     ErrorOf("Error", "Invalid public key input")}

\* The cycle reached the builder and the builder threw.
BuildFailed(q) == q.pc = "failed" /\ q.details # Undefined /\ q.built = <<>>

\* The builder of cycle r settles in this step.
BuilderSettles(r) == req[r].pc = "building" /\ req'[r] # req[r]

\* When the builder settles, either it threw, the cycle fails with that
\* error with nothing sent or built and the counters as they were, or the
\* paid request is sent with the payload; a cycle whose builder threw
\* never changes again.
BuildStep ==
    \A r \in Req :
        /\ BuilderSettles(r) =>
              \/ /\ BuildFailed(req'[r])
                 /\ req'[r].err \in BuilderErrors
                 /\ req'[r].sent = req[r].sent
                 /\ sessionCalls' = sessionCalls
                 /\ sessionTotalUsd' = sessionTotalUsd
              \/ /\ req'[r].pc = "fetch2"
                 /\ Len(req'[r].built) = 1
                 /\ Len(req'[r].sent) = 2
                 /\ req'[r].sent[2].sig = req'[r].built[1]
        /\ BuildFailed(req[r]) => req'[r] = req[r]

\* C30: a cycle whose payload builder threw (signing, key decoding, amount
\* conversion, RPC, encoding; either rail) has failed with the builder's
\* error, has sent exactly one HTTP request, the unsigned one, has no
\* payload and no answer to a paid request, and never changes again (no
\* second build); the step in which the builder throws leaves the session
\* counters as they were, and the counters count the paid successes only.
C30_BuildFailureEndsCycle ==
    /\ [](/\ \A r \in Req :
                BuildFailed(req[r]) =>
                    /\ req[r].err \in BuilderErrors
                    /\ Len(req[r].sent) = 1
                    /\ req[r].sent[1].sig = Undefined
                    /\ PaidSends(req[r]) = {}
                    /\ ~Answered2(req[r])
          /\ kind # "image" => sessionCalls = Cardinality({r \in Req : PaidOk(req[r])})
          /\ kind = "image" => sessionCalls = 0 /\ sessionTotalUsd = 0)
    /\ [][BuildStep]_vars

\* The signing of one cycle failed while another cycle was paid and
\* counted.
C30_Witness ==
    \E r1, r2 \in Req :
        /\ BuildFailed(req[r1])
        /\ req[r1].err = SigningError
        /\ Len(req[r1].sent) = 1
        /\ PaidOk(req[r2])
        /\ sessionCalls = 1


\* C31: in ImageClient every retry answered 2xx has added 1 to the call
\* counter and the amount of the selected requirement to the total, so that
\* getSpending reports as many calls as there were paid generations.
C31_ImageCredits ==
    kind = "image" =>
        LET paid == {r \in Req : PaidOk(req[r])} IN
        /\ getSpending.calls = Cardinality(paid)
        /\ getSpending.totalUsd = SumAmounts(paid)

\* Every generation of an ImageClient was paid and has returned its result,
\* and getSpending still reports no call and no spending.
C31_Witness ==
    /\ kind = "image"
    /\ \A r \in Req : PaidOk(req[r]) /\ req[r].pc = "success"
    /\ SumAmounts(Req) > 0
    /\ getSpending = [totalUsd |-> 0, calls |-> 0]


\* The fields the claim lists for the echo of a Solana payload.
SolanaEchoed == {"network", "amount", "asset", "payTo", "maxTimeoutSeconds"}

\* C32 as stated: in every Solana payload each of network, amount, asset,
\* payTo and maxTimeoutSeconds of accepted equals that field of the selected
\* requirement, and the mint of the transfer is the requirement's asset.
C32_Original ==
    kind = "solana" =>
        \A r \in Req : \A p \in PayloadsOf(req[r]) :
            /\ \A f \in SolanaEchoed :
                  Get(p.o.accepted, f) = Get(SolanaSelected(req[r]), f)
            /\ JStr(p.o.payload.o.transaction.mint) = Get(SolanaSelected(req[r]), "asset")

\* C32: in every Solana payload, accepted.payTo is the payTo of the selected
\* requirement, accepted.amount its amount (its maxAmountRequired when it
\* has no amount), accepted.maxTimeoutSeconds its maxTimeoutSeconds (300
\* when it has none) and accepted.extra its extra; accepted.network is the
\* Solana mainnet id and accepted.asset and the mint of the transfer are
\* the USDC mint, whatever solana: network and asset the requirement names;
\* the transfer goes to accepted.payTo for accepted.amount.
C32_SolanaAccepted ==
    kind = "solana" =>
        \A r \in Req : \A p \in PayloadsOf(req[r]) :
            LET sel == SolanaSelected(req[r])
                accepted == p.o.accepted.o
                tx == p.o.payload.o.transaction
            IN
            /\ accepted.payTo = Get(sel, "payTo")
            /\ accepted.amount = JsOr(Get(sel, "amount"), Get(sel, "maxAmountRequired"))
            /\ accepted.maxTimeoutSeconds = JsOr(Get(sel, "maxTimeoutSeconds"), JNum(300))
            /\ accepted.extra = Get(sel, "extra")
            /\ Get(sel, "network").s \in SolanaNetworks
            /\ accepted.network = JStr("solana:5eykt4UsFv8P8NJdTREpY1vzqKqZKvdp")
            /\ accepted.asset = JStr("EPjFWdd5AufqSSqeM2qN1xzybapC8G4wEGGkZwyTDt1v")
            /\ accepted.scheme = JStr("exact")
            /\ tx.mint = "EPjFWdd5AufqSSqeM2qN1xzybapC8G4wEGGkZwyTDt1v"
            /\ tx.destinationOwner = accepted.payTo
            /\ tx.amount = BigIntOf(accepted.amount)

\* A Solana payload was built for a requirement that names another asset
\* than USDC and a validity of 60 seconds.
C32_Witness ==
    \E r \in Req : \E p \in PayloadsOf(req[r]) :
        /\ kind = "solana"
        /\ Get(SolanaSelected(req[r]), "asset") = JStr("So11111111111111111111111111111111111111112")
        /\ p.o.accepted.o.maxTimeoutSeconds = JNum(60)
        /\ p.o.accepted.o.asset # Get(SolanaSelected(req[r]), "asset")
        /\ Len(req[r].sent) = 2


\* The first request of the cycle was answered 2xx.
FreeOk(q) == IsOk(q.resp.status)

\* A step of a cycle whose first answer is or becomes 2xx leaves the
\* session counters as they were.
FreeStep ==
    \A r \in Req :
        (req'[r] # req[r] /\ FreeOk(req'[r])) =>
            /\ sessionCalls' = sessionCalls
            /\ sessionTotalUsd' = sessionTotalUsd

\* C33: a cycle whose unauthenticated request was answered 2xx returns the
\* parsed body (it is reading it, or has succeeded; a body that is no JSON
\* makes the read throw) with nothing extracted from a challenge, no
\* payload built, no second request sent and no second answer; none of its
\* steps changes the session counters, which count the paid cycles only.
C33_FreePass ==
    /\ [](/\ \A r \in Req :
                FreeOk(req[r]) =>
                    /\ req[r].details = Undefined
                    /\ req[r].extensions = Undefined
                    /\ req[r].built = <<>>
                    /\ Len(req[r].sent) = 1
                    /\ req[r].sent[1].sig = Undefined
                    /\ ~Answered2(req[r])
                    /\ IF req[r].resp.body.t = "json"
                       THEN req[r].pc \in {"body1", "success"}
                       ELSE req[r].pc = "body1"
                            \/ (req[r].pc = "failed" /\ req[r].err = BodySyntaxError)
          /\ sessionCalls = Cardinality({r \in Req : kind # "image" /\ PaidOk(req[r])}))
    /\ [][FreeStep]_vars

\* One cycle has succeeded on its first answer after another was paid and
\* counted: the counters show the paid one only.
C33_Witness ==
    \E r1, r2 \in Req :
        /\ FreeOk(req[r1])
        /\ req[r1].pc = "success"
        /\ Len(req[r1].sent) = 1
        /\ PaidOk(req[r2])
        /\ sessionCalls = 1
        /\ sessionTotalUsd = AmountOf(req[r2])


\* C34: when every fetch, body read and payload builder the cycle awaits
\* settles, every request that was issued ends in Success, Rejected or
\* Failed, and stays there; at every moment it has sent at most two HTTP
\* requests and built at most one payload.
C34_Terminates ==
    /\ [](\A r \in Req : Len(req[r].sent) <= 2 /\ Len(req[r].built) <= 1)
    /\ \A r \in Req :
          (req[r].pc # "idle") ~> [](Phase(req[r]) \in {"Success", "Rejected", "Failed"})

\* A cycle ended rejected after two sends and one payload.
C34_Witness ==
    \E r \in Req :
        /\ Phase(req[r]) = "Rejected"
        /\ Len(req[r].sent) = 2
        /\ Len(req[r].built) = 1
        /\ ~ENABLED PayNext


\* The fetches that have failed.
Rejected == {p \in DOMAIN promises : promises[p].state = "rejected"}

\* A call made while nothing is cached and no marker is set starts a fetch
\* of its own; the resumption of the owner of a failed fetch clears the
\* marker and leaves the cache as it was.
RefetchStep ==
    \A c \in Callers :
        /\ (callers[c].pc = "idle" /\ callers'[c].pc # "idle"
                /\ modelPricingCache = JNull /\ modelPricingPromise = 0)
           => /\ callers'[c].pc = "owner"
              /\ Len(promises') = Len(promises) + 1
              /\ modelPricingPromise' = Len(promises')
              /\ promises'[Len(promises')].state = "pending"
        /\ (callers[c].pc = "owner" /\ callers'[c].pc = "failed")
           => /\ modelPricingPromise' = 0
              /\ modelPricingCache' = modelPricingCache

\* C35: a pricing fetch that failed is not cached: every caller that
\* awaited it and has resumed has failed with the error of that fetch, the
\* cache is empty as long as no fetch has succeeded, the in-flight marker is
\* set only while the owner of its fetch has not yet resumed (so it is
\* clear once the failure was delivered), and a call that finds the marker
\* clear and the cache empty starts a new fetch.
C35_FailureNotCached ==
    /\ [](/\ \A c \in Callers :
                (callers[c].awaits \in Rejected /\ callers[c].pc \notin {"owner", "joined"})
                   => /\ callers[c].pc = "failed"
                      /\ callers[c].result = promises[callers[c].awaits].outcome.err
          /\ Fulfilled = {} => modelPricingCache = JNull
          /\ modelPricingPromise # 0 =>
                \E c \in Callers :
                    callers[c].pc = "owner" /\ callers[c].awaits = modelPricingPromise
          /\ \A c \in Callers : callers[c].pc = "failed" => callers[c].awaits \in Rejected)
    /\ [][RefetchStep]_vars

\* A first fetch failed, its owner and a caller that had joined it both
\* received the failure, and a later call has started a second fetch.
C35_Witness ==
    /\ Len(promises) = 2
    /\ promises[1].state = "rejected"
    /\ modelPricingPromise = 2
    /\ modelPricingCache = JNull
    /\ \E c, d, e \in Callers :
          /\ callers[c].pc = "failed" /\ callers[c].awaits = 1
          /\ callers[d].pc = "failed" /\ callers[d].awaits = 1 /\ c # d
          /\ callers[d].result = promises[1].outcome.err
          /\ callers[e].pc = "owner" /\ callers[e].awaits = 2


\* Does orchestrator k take the body of a header-less 402 for the challenge?
TakesBody(k, body) == ~HeaderFalsy(HeaderFromBody(k, body))

\* C36: for every header-less 402 a cycle has received, the EVM
\* orchestrators and the Solana orchestrator agree on its body: either both
\* take it for the challenge or both report NoChallengeFound; the cycle
\* itself has failed with NoChallengeFound exactly when its own
\* orchestrator does not take the body.
C36_SameTolerance ==
    \A r \in Req :
        LET q == req[r] IN
        (Located(q) /\ HeaderFalsy(q.resp.header)) =>
            /\ (q.err = NoChallengeFound) <=> ~TakesBody(kind, q.resp.body)
            /\ TakesBody("llm", q.resp.body) <=> TakesBody("solana", q.resp.body)
            /\ TakesBody("image", q.resp.body) <=> TakesBody("solana", q.resp.body)

\* SolanaLLMClient took the body {"x402Version": 2} of a header-less 402 for
\* the challenge and failed in the codec, where LLMClient reports
\* NoChallengeFound.
C36_Witness ==
    \E r \in Req :
        /\ kind = "solana"
        /\ Located(req[r])
        /\ HeaderFalsy(req[r].resp.header)
        /\ req[r].resp.body = JsonText(JObj([x402Version |-> JNum(2)]))
        /\ req[r].pc = "failed"
        /\ req[r].err = StructureError
        /\ ~TakesBody("llm", req[r].resp.body)


\* The integer the EIP-712 message of payload p transfers.
SignedValue(p) == p.o.payload.o.signature.message.value

\* C37: in every EVM cycle whose retry was answered 2xx, the value signed in
\* the transfer authorization, the amount in accepted.amount and in
\* authorization.value, and the amount of the requirement selected from the
\* challenge are one integer, and the session total (in micro-units) is the
\* sum of the signed values of those cycles.
C37_AmountConsistent ==
    kind \in {"llm", "image"} =>
        LET paid == {r \in Req : PaidOk(req[r])} IN
        /\ \A r \in paid :
              LET p == DecodePayload(req[r].built[1])
                  sel == EvmSelected(req[r])
              IN /\ req[r].details.amount = JsOr(Get(sel, "amount"), Get(sel, "maxAmountRequired"))
                 /\ SignedValue(p) = AmountOf(req[r])
                 /\ p.o.accepted.o.amount = req[r].details.amount
                 /\ p.o.payload.o.authorization.o.value = req[r].details.amount
        /\ sessionTotalUsd = SumAmounts(paid)

\* LLMClient paid a requirement whose amount is "0x10": 16 units were
\* signed and the call was counted, and nothing was added to the total.
C37_Witness ==
    \E r \in Req :
        /\ kind = "llm"
        /\ PaidOk(req[r])
        /\ req[r].details.amount = JStr("0x10")
        /\ SignedValue(DecodePayload(req[r].built[1])) = 16
        /\ sessionCalls = 1
        /\ sessionTotalUsd = 0

=============================================================================
